---- MODULE Spec2Model ----
(***************************************************************************)
(* Renewal pipeline of openclaw-kimi-code-auth.                            *)
(*                                                                         *)
(*   - oauth.ts: readKimiCliCredentials, isTokenExpiredOrNearExpiry,       *)
(*     tryRefreshToken, loginKimiCodeOAuth, refreshKimiCodeTokens          *)
(*   - index.ts: the catch block of the provider's run                     *)
(*   - renew-kimi-token.sh (src/unnamed/part_003): the scheduler cycle     *)
(*                                                                         *)
(* Files are modelled by their content, the clock in milliseconds since    *)
(* the epoch (Date.now()); `date +%s` is the clock divided by 1000.  The   *)
(* Token Store's expires_at is a possibly fractional number of seconds; it *)
(* is held in microseconds so that flooring and truncating are visible.    *)
(* An optional value is a sequence of length 0 or 1.                       *)
(***************************************************************************)
EXTENDS Integers, Sequences, FiniteSets, TLC

(* ------------------------------------------------------------------ *)
(* Bounds of the model                                                  *)
(* ------------------------------------------------------------------ *)
\* seconds the clock may advance after the initial instant
MaxAdvanceS == 60
\* logins run by hand (or by another component) while the model runs
MaxExternalLogins == 1
\* restarts of the consumer the model counts
MaxRestarts == 2

(* ------------------------------------------------------------------ *)
(* Program constants                                                    *)
(* ------------------------------------------------------------------ *)
\* oauth.ts:19, 2 * 60 * 1000
TOKEN_REFRESH_THRESHOLD_MS == 120000
\* oauth.ts:178, setTimeout(..., 5000)
REFRESH_WAIT_MS == 5000
\* oauth.ts:124, Date.now() + 3600 * 1000
DEFAULT_LIFETIME_MS == 3600000
\* renew-kimi-token.sh:83, (( remaining_seconds > 300 ))
RENEW_THRESHOLD_S == 300
\* renew-kimi-token.sh:96, timeout 30 kimi login
LOGIN_TIMEOUT_S == 30
\* README.md:176, tokens expire every 10 minutes (600 seconds)
TOKEN_LIFETIME_S == 600
CRON_PERIOD_S == 300

None == << >>
Some(v) == << v >>
IsSome(o) == Len(o) = 1
Val(o) == o[1]

\* the scheduler cycles that may run (cron does not exclude an overlap)
Cycles == {"c1", "c2"}
\* who launches the external authenticator: a cycle, or the plugin ("ts")
Launchers == Cycles \cup {"ts"}

(* ------------------------------------------------------------------ *)
(* Paths                                                                *)
(* ------------------------------------------------------------------ *)
HOME == "/home/user"
KIMI_CREDENTIALS == HOME \o "/.kimi/credentials/kimi-code.json"
AUTH_PROFILES_DIR == HOME \o "/.openclaw/agents/main/agent"
AUTH_PROFILES == AUTH_PROFILES_DIR \o "/auth-profiles.json"
\* mktemp without a template creates its file in ${TMPDIR:-/tmp}
TmpDirs == {"/tmp", AUTH_PROFILES_DIR}

VARIABLES
  now,        \* the clock, ms since the epoch
  store,      \* the Token Store file ~/.kimi/credentials/kimi-code.json
  doc,        \* the shared document auth-profiles.json
  tmp,        \* per cycle, the temporary file of mktemp
  sh,         \* per cycle, the state of renew-kimi-token.sh
  kimi,       \* per launcher, the `kimi login` process it started
  ts,         \* the plugin process (oauth.ts, index.ts)
  consumer,   \* the OpenClaw gateway: how often it was restarted
  extLogins   \* logins run outside the model's processes so far

vars == << now, store, doc, tmp, sh, kimi, ts, consumer, extLogins >>

(* ------------------------------------------------------------------ *)
(* Strings                                                              *)
(* ------------------------------------------------------------------ *)
\* String.prototype.includes
Includes(s, sub) ==
  \E i \in 1..(Len(s) - Len(sub) + 1) : SubSeq(s, i, i + Len(sub) - 1) = sub

\* String.prototype.toLowerCase on the answers the model gives
toLowerCase(s) ==
  CASE s = "Y" -> "y"
    [] s = "N" -> "n"
    [] OTHER -> s

(* ------------------------------------------------------------------ *)
(* The Token Store                                                      *)
(* ------------------------------------------------------------------ *)
\* the initial instants: a whole second, and one half a second later
StartTimes == {100000, 100500}

\* text holds the content of a file that is not JSON
AbsentStore ==
  [kind |-> "absent", text |-> "", access_token |-> None, refresh_token |-> None,
   expires_at |-> None, scope |-> None, token_type |-> None]

JsonStore(a, r, e) ==
  [kind |-> "json", text |-> "", access_token |-> a, refresh_token |-> r,
   expires_at |-> e, scope |-> Some("kimi-code"), token_type |-> Some("Bearer")]

\* a file whose content is no JSON text
GarbageStore(text) == [AbsentStore EXCEPT !.kind = "garbage", !.text = text]

\* expires_at values (microseconds) around an instant t0 (ms): absent from
\* the file, 0, half a second, in the past by 1 ms, 30 s ahead, exactly on and just under
\* the in-process threshold (now, and when the 5 seconds of a renewal
\* attempt are over), around the scheduler threshold (as whole seconds of
\* the clock's second, and with a fraction), and a full lifetime
ExpiresChoices(t0) ==
  { None, Some(0), Some(500000), Some((t0 - 1) * 1000),
    Some((t0 + 30000) * 1000),
    Some((t0 + TOKEN_REFRESH_THRESHOLD_MS) * 1000),
    Some((t0 + TOKEN_REFRESH_THRESHOLD_MS) * 1000 - 500),
    Some((t0 + TOKEN_REFRESH_THRESHOLD_MS + REFRESH_WAIT_MS) * 1000),
    Some(((t0 \div 1000) + RENEW_THRESHOLD_S) * 1000000),
    Some(((t0 \div 1000) + RENEW_THRESHOLD_S) * 1000000 + 900000),
    Some(((t0 \div 1000) + RENEW_THRESHOLD_S + 1) * 1000000),
    Some(((t0 \div 1000) + TOKEN_LIFETIME_S) * 1000000) }

InitStores(t0) ==
  { AbsentStore,
    [AbsentStore EXCEPT !.kind = "empty"],
    GarbageStore("garbage"),
    GarbageStore("path traversal"),
    JsonStore(None, Some("refA"), Some((t0 + 600000) * 1000)),
    JsonStore(None, Some("refA"), Some((t0 + 30000) * 1000)),
    JsonStore(Some("tokA"), Some(""), Some((t0 + 600000) * 1000)) }
  \cup { JsonStore(Some("tokA"), Some("refA"), e) : e \in ExpiresChoices(t0) }

\* JavaScript truthiness of an optional string / number field
TruthyStr(o) == IsSome(o) /\ Val(o) # ""
TruthyNum(o) == IsSome(o) /\ Val(o) # 0

\* Math.floor(expires_at * 1000): seconds (held in microseconds) to ms
FloorMs(us) == us \div 1000

\* the function taking a missing expires_at for 0, as the script does
readKimiCliCredentials_NoDefault(file, t) ==
  IF file.kind # "json" THEN None
  ELSE IF ~TruthyStr(file.access_token) \/ ~TruthyStr(file.refresh_token) THEN None
  ELSE Some([access |-> Val(file.access_token),
             refresh |-> Val(file.refresh_token),
             expires |-> IF TruthyNum(file.expires_at)
                           THEN FloorMs(Val(file.expires_at))
                           ELSE 0,
             scope |-> file.scope,
             tokenType |-> file.token_type])

\* oauth.ts:87-127, what the function returns when nothing is rethrown: the
\* record, or None for null
readKimiCliCredentials(file, t) ==
  IF file.kind # "json" THEN None
  ELSE IF ~TruthyStr(file.access_token) \/ ~TruthyStr(file.refresh_token) THEN None
  ELSE Some([access |-> Val(file.access_token),
             refresh |-> Val(file.refresh_token),
             expires |-> IF TruthyNum(file.expires_at)
                           THEN FloorMs(Val(file.expires_at))
                           ELSE t + DEFAULT_LIFETIME_MS,
             scope |-> file.scope,
             tokenType |-> file.token_type])

\* String.prototype.startsWith
startsWith(s, prefix) ==
  Len(prefix) <= Len(s) /\ SubSeq(s, 1, Len(prefix)) = prefix

\* the message of the SyntaxError JSON.parse throws for a text whose first
\* character cannot begin a JSON value.  V8 quotes a short source text in
\* the message since version 10.5 (Node.js 19); before, it names the
\* position only.
JsonParseErrorMessage(text, quotesSource) ==
  IF quotesSource
    THEN "Unexpected token '" \o SubSeq(text, 1, 1) \o "', \"" \o text
           \o "\" is not valid JSON"
    ELSE "Unexpected token " \o SubSeq(text, 1, 1) \o " in JSON at position 0"

\* oauth.ts:84
PathTraversalMsg == "Invalid credentials path: path traversal detected"

\* what the catch block of oauth.ts:128-134 lets through: any error whose
\* message says 'path traversal'
Rethrown(msg) == Includes(msg, "path traversal")

\* oauth.ts:78-135 as called by process p: KIMI_CREDENTIALS_PATH was joined
\* from homedir() when the module was loaded; the check of lines 81-85
\* resolves homedir() again.  The outcome is the value returned or the
\* error thrown.
ReadOutcome(p, file, t) ==
  IF ~startsWith(KIMI_CREDENTIALS, p.home)
    THEN [kind |-> "throw", value |-> None, msg |-> PathTraversalMsg]
  ELSE IF file.kind = "garbage"
            /\ Rethrown(JsonParseErrorMessage(file.text, p.quotesSource))
    THEN [kind |-> "throw", value |-> None,
          msg |-> JsonParseErrorMessage(file.text, p.quotesSource)]
  ELSE [kind |-> "return", value |-> readKimiCliCredentials(file, t), msg |-> ""]

\* stats.mode & 0o777 of the Token Store file in octal, or "unknown" where
\* statSync throws
Modes == {"600", "644", "666", "unknown"}

\* oauth.ts:42-62, the value returned
validateCredentialFilePermissions(mode) == mode \in {"600", "644", "unknown"}

\* oauth.ts:51-54
PermissionWarning(mode) ==
  "[kimi-code-auth] Warning: " \o KIMI_CREDENTIALS \o " has permissions " \o mode
    \o ", expected 600. Consider running: chmod 600 " \o KIMI_CREDENTIALS

\* oauth.ts:118
JwtWarning == "[kimi-code-auth] Warning: Tokens do not appear to be valid JWT format"

\* the characters of [A-Za-z0-9_-]
JwtChars ==
  { "A", "B", "C", "D", "E", "F", "G", "H", "I", "J", "K", "L", "M",
    "N", "O", "P", "Q", "R", "S", "T", "U", "V", "W", "X", "Y", "Z",
    "a", "b", "c", "d", "e", "f", "g", "h", "i", "j", "k", "l", "m",
    "n", "o", "p", "q", "r", "s", "t", "u", "v", "w", "x", "y", "z",
    "0", "1", "2", "3", "4", "5", "6", "7", "8", "9", "_", "-" }

\* oauth.ts:115, jwtPattern.test(s): three non-empty runs of JwtChars with a
\* dot between them
jwtPattern(s) ==
  \E i \in 2..(Len(s) - 3) : \E j \in (i + 2)..(Len(s) - 1) :
    /\ SubSeq(s, i, i) = "." /\ SubSeq(s, j, j) = "."
    /\ \A k \in (1..Len(s)) \ {i, j} : SubSeq(s, k, k) \in JwtChars

\* what a call of readKimiCliCredentials writes to the console: the
\* advisory on the permissions (line 92) once the file is known to exist,
\* and the warning on the format of the tokens (lines 115-119)
ReadConsole(p, file, mode) ==
  IF ~startsWith(KIMI_CREDENTIALS, p.home) \/ file.kind = "absent" THEN << >>
  ELSE (IF validateCredentialFilePermissions(mode) THEN << >>
        ELSE << PermissionWarning(mode) >>)
       \o (IF /\ file.kind = "json"
              /\ TruthyStr(file.access_token) /\ TruthyStr(file.refresh_token)
              /\ \/ ~jwtPattern(Val(file.access_token))
                 \/ ~jwtPattern(Val(file.refresh_token))
             THEN << JwtWarning >> ELSE << >>)

\* the permission check made a gate: a file with other permissions than
\* 600 or 644 is not read and counts as missing
ReadFile_Gated(p, file, t, mode) ==
  [outcome |-> IF /\ startsWith(KIMI_CREDENTIALS, p.home) /\ file.kind # "absent"
                  /\ ~validateCredentialFilePermissions(mode)
                 THEN [kind |-> "return", value |-> None, msg |-> ""]
                 ELSE ReadOutcome(p, file, t),
   console |-> ReadConsole(p, file, mode)]

\* oauth.ts:78-135 on a file with permissions mode: the value of
\* validateCredentialFilePermissions is dropped at line 92, so the outcome
\* is that of the read alone; the console gets the warnings
ReadFile(p, file, t, mode) ==
  [outcome |-> ReadOutcome(p, file, t),
   console |-> ReadConsole(p, file, mode)]

\* the record of the call with lines written to the console
Warned(t, lines) == [t EXCEPT !.console = @ \o lines]

\* the comparison made inclusive: a record with exactly the threshold left
\* counts as near expiry
isTokenExpiredOrNearExpiry_Inclusive(credentials, t) ==
  LET timeLeft == credentials.expires - t
  IN  timeLeft <= TOKEN_REFRESH_THRESHOLD_MS

\* oauth.ts:140-144
isTokenExpiredOrNearExpiry(credentials, t) ==
  LET timeLeft == credentials.expires - t
  IN  timeLeft < TOKEN_REFRESH_THRESHOLD_MS

(* ------------------------------------------------------------------ *)
(* The external authenticator, `kimi login`                             *)
(* ------------------------------------------------------------------ *)
NoProcess == [state |-> "none", code |-> None, termSent |-> FALSE]

\* the tokens a login started by launcher p obtains
NewAccess(p) == CASE p = "ts" -> "tokT" [] p = "ext" -> "tokX" [] p = "c1" -> "tok1" [] OTHER -> "tok2"
NewRefresh(p) == CASE p = "ts" -> "refT" [] p = "ext" -> "refX" [] p = "c1" -> "ref1" [] OTHER -> "ref2"

\* the Token Store a successful login leaves: new tokens, a full lifetime
\* from the instant t (ms) of the login
RenewedStore(p, t) ==
  JsonStore(Some(NewAccess(p)), Some(NewRefresh(p)),
            Some((t + TOKEN_LIFETIME_S * 1000) * 1000))

\* some operation of the plugin or some scheduler cycle is under way
Active ==
  \/ ts.pc \notin {"idle", "done", "crashed", "hung"}
  \/ \E c \in Cycles : sh[c].pc \notin {"idle", "exited", "killed"}

\* the login succeeds: its only signal is the Token Store it writes
KimiWrite(p) ==
  /\ Active
  /\ kimi[p].state = "running"
  /\ store' = RenewedStore(p, now)
  /\ UNCHANGED << now, doc, tmp, sh, kimi, ts, consumer, extLogins >>

\* the process ends on its own, with any exit status
KimiExit(p) ==
  /\ Active
  /\ kimi[p].state = "running"
  /\ \E code \in {0, 1} :
       kimi' = [kimi EXCEPT ![p] = [@ EXCEPT !.state = "exited", !.code = Some(code)]]
  /\ UNCHANGED << now, store, doc, tmp, sh, ts, consumer, extLogins >>

\* SIGTERM reaches process q: the default disposition ends it, a handler
\* may ignore it
Terminated(q, obeys) ==
  IF q.state = "running" /\ obeys
    THEN [q EXCEPT !.state = "exited", !.code = Some(143), !.termSent = TRUE]
    ELSE [q EXCEPT !.termSent = TRUE]

\* a login run by hand, or by another component, renews the Token Store
ExternalLogin ==
  /\ extLogins < MaxExternalLogins
  /\ Active
  /\ extLogins' = extLogins + 1
  /\ store' = RenewedStore("ext", now)
  /\ UNCHANGED << now, doc, tmp, sh, kimi, ts, consumer >>

(* ------------------------------------------------------------------ *)
(* oauth.ts                                                             *)
(* ------------------------------------------------------------------ *)
\* the message reworded, as the note's first line is (oauth.ts:208)
NotAuthenticatedMsg_Reworded == "Kimi CLI authentication not found. Please run 'kimi login' first."

\* oauth.ts:225-227
NotAuthenticatedMsg == "Kimi CLI not authenticated. Please run 'kimi login' first."
\* oauth.ts:67-72, on messages without control characters
sanitizeLogMessage(msg) == IF Len(msg) > 500 THEN SubSeq(msg, 1, 500) ELSE msg

\* home is what homedir() returns now, quotesSource the runtime's way with the
\* messages of JSON.parse, answer the boolean of isKimiCliAuthenticated
TsIdle ==
  [pc |-> "idle", op |-> "none", arg |-> "", home |-> HOME,
   quotesSource |-> FALSE, answer |-> None, credentials |-> None,
   refreshed |-> None, deadline |-> None, postCheck |-> None,
   result |-> [kind |-> "none", value |-> None, msg |-> ""],
   notes |-> << >>, prompts |-> 0, opened |-> 0, logs |-> << >>,
   progress |-> << >>, spawns |-> 0, console |-> << >>, profiles |-> << >>]

Returned(v) == [kind |-> "return", value |-> v, msg |-> ""]
Thrown(m) == [kind |-> "throw", value |-> None, msg |-> m]

ShAllIdle == \A c \in Cycles : sh[c].pc = "idle"

\* the host, on a runtime whose JSON.parse quotes its source or not, calls
\* isKimiCliAuthenticated, loginKimiCodeOAuth (directly, or through index.ts
\* run) or refreshKimiCodeTokens(refreshToken)
TsCall(quotesSource) ==
  /\ ts.pc = "idle" /\ ShAllIdle
  /\ \E op \in {"isauth", "login", "run", "refresh"} :
     \E arg \in (IF op = "refresh" THEN {"refA", "refOther"} ELSE {""}) :
       ts' = [ts EXCEPT !.op = op, !.arg = arg, !.quotesSource = quotesSource,
                        !.pc = CASE op = "refresh" -> "try_start"
                                 [] op = "isauth" -> "isauth_read"
                                 [] OTHER -> "login_read"]
  /\ UNCHANGED << now, store, doc, tmp, sh, kimi, consumer, extLogins >>

\* the host changes the HOME of the process after the module was loaded:
\* homedir() follows the environment, KIMI_CREDENTIALS_PATH does not
HomeChange ==
  /\ ts.pc \notin {"idle", "done", "crashed", "hung"}
  /\ ts.home = HOME
  /\ ts' = [ts EXCEPT !.home = "/home/other"]
  /\ UNCHANGED << now, store, doc, tmp, sh, kimi, consumer, extLogins >>

\* oauth.ts:190-192
IsAuthRead ==
  /\ ts.pc = "isauth_read"
  /\ \E mode \in Modes :
     LET rf == ReadFile(ts, store, now, mode)
         r == rf.outcome
     IN
       ts' = Warned(IF r.kind = "throw"
               THEN [ts EXCEPT !.result = Thrown(r.msg), !.pc = "done"]
               ELSE [ts EXCEPT !.answer = Some(IsSome(r.value)),
                               !.result = Returned(None), !.pc = "done"],
               rf.console)
  /\ UNCHANGED << now, store, doc, tmp, sh, kimi, consumer, extLogins >>

\* where a finished loginKimiCodeOAuth hands its result
AfterLogin == IF ts.op = "run" THEN "run_after" ELSE "done"

\* oauth.ts:202-205 and 230-232, 265-269: read, then classify
LoginRead ==
  /\ ts.pc = "login_read"
  /\ \E mode \in Modes :
     LET rf == ReadFile(ts, store, now, mode)
         r == rf.outcome
         credentials == r.value
     IN
       ts' = Warned(IF r.kind = "throw"
               THEN [ts EXCEPT !.result = Thrown(r.msg), !.pc = AfterLogin]
             ELSE IF ~IsSome(credentials)
               THEN [ts EXCEPT !.pc = "guide_note"]
             ELSE IF isTokenExpiredOrNearExpiry(Val(credentials), now)
               THEN [ts EXCEPT !.credentials = credentials, !.pc = "try_start",
                       !.progress = Append(@, "Token expiring soon, attempting refresh...")]
             ELSE [ts EXCEPT !.credentials = credentials, !.pc = AfterLogin,
                     !.progress = Append(@, "Found valid Kimi CLI authentication"),
                     !.result = Returned(credentials)],
             rf.console)
  /\ UNCHANGED << now, store, doc, tmp, sh, kimi, consumer, extLogins >>

\* oauth.ts:206-214
GuideNote ==
  /\ ts.pc = "guide_note"
  /\ ts' = [ts EXCEPT !.notes = Append(@, "Kimi Code OAuth"), !.pc = "guide_prompt"]
  /\ UNCHANGED << now, store, doc, tmp, sh, kimi, consumer, extLogins >>

\* oauth.ts:216-227: the prompt, the optional openUrl (which may fail), the throw
GuidePrompt ==
  /\ ts.pc = "guide_prompt"
  /\ \E shouldOpen \in {"y", "Y", "n", ""} : \E openFails \in BOOLEAN :
       LET opens == toLowerCase(shouldOpen) = "y" IN
       /\ opens \/ ~openFails
       /\ ts' = [ts EXCEPT !.prompts = @ + 1,
                    !.opened = IF opens THEN @ + 1 ELSE @,
                    !.logs = IF opens /\ openFails
                               THEN Append(@, "Visit: https://github.com/moonshot-ai/kimi-cli")
                               ELSE @,
                    !.result = Thrown(NotAuthenticatedMsg),
                    !.pc = AfterLogin]
  /\ UNCHANGED << now, store, doc, tmp, sh, kimi, consumer, extLogins >>

\* oauth.ts:150-162: the log line, spawn("kimi", ["login"]) and the timer.
\* spawn reports ENOENT and EACCES by an 'error' event on the child; no
\* listener is attached, so the event is an uncaught exception of the host
\* process, which ends it unless the host installed its own handler.
TryStart ==
  /\ ts.pc = "try_start"
  /\ \E launch \in {"ok", "error"} : \E hostHandles \in BOOLEAN :
       /\ (launch = "ok") => hostHandles
       /\ kimi' = [kimi EXCEPT !["ts"] =
                     [NoProcess EXCEPT !.state = IF launch = "ok" THEN "running" ELSE "failed"]]
       /\ ts' = [ts EXCEPT
                   !.logs = Append(@, sanitizeLogMessage(
                              "Token expiring soon. Attempting to refresh via kimi login...")),
                   !.spawns = @ + 1,
                   !.deadline = IF hostHandles THEN Some(now + REFRESH_WAIT_MS) ELSE None,
                   !.pc = IF hostHandles THEN "try_wait" ELSE "crashed"]
  /\ UNCHANGED << now, store, doc, tmp, sh, consumer, extLogins >>

\* where a resolved tryRefreshToken hands its result
AfterTry == IF ts.op = "refresh" THEN "refresh_after" ELSE "login_after"

\* oauth.ts:162-178, the timer's callback: kill, re-read, resolve.  An error
\* thrown by the re-read leaves the callback, outside the promise's executor
\* and the function's try block: it is an uncaught exception, which ends the
\* host process, or, where the host handles it, leaves the promise pending.
TimerFire ==
  /\ ts.pc = "try_wait"
  /\ now >= Val(ts.deadline)
  /\ \E obeys \in BOOLEAN :
       kimi' = [kimi EXCEPT !["ts"] = Terminated(@, obeys)]
  /\ \E mode \in Modes :
     LET rf == ReadFile(ts, store, now, mode)
         r == rf.outcome
         newCreds == r.value
         ok == IsSome(newCreds) /\ ~isTokenExpiredOrNearExpiry(Val(newCreds), now)
     IN IF r.kind = "throw"
          THEN \E hostHandles \in BOOLEAN :
                 ts' = Warned([ts EXCEPT !.deadline = None,
                                  !.pc = IF hostHandles THEN "hung" ELSE "crashed"],
                              rf.console)
        ELSE
        ts' = Warned([ts EXCEPT
                 !.deadline = None,
                 !.refreshed = Some(ok),
                 !.postCheck = IF ok THEN newCreds ELSE None,
                 !.logs = Append(@, sanitizeLogMessage(
                            IF ok THEN "Token refreshed successfully!"
                                  ELSE "Token refresh may require manual login.")),
                 !.pc = AfterTry],
                 rf.console)
  /\ UNCHANGED << now, store, doc, tmp, sh, consumer, extLogins >>

\* the function re-reading the Token Store on every path after the attempt,
\* and returning what that read finds
LoginAfter_Reread ==
  /\ ts.pc = "login_after"
  /\ LET newCredentials == readKimiCliCredentials(store, now) IN
       ts' = [ts EXCEPT !.progress = Append(@, "Token refresh required"),
                        !.notes = Append(@, "Token Expired"),
                        !.logs = Append(@, "Returning current token. OpenClaw will use fallback if expired."),
                        !.result = Returned(newCredentials),
                        !.pc = AfterLogin]
  /\ UNCHANGED << now, store, doc, tmp, sh, kimi, consumer, extLogins >>

\* the function returning, after a confirmed attempt, the record it read
\* before the attempt instead of the one it reads again
LoginAfter_FirstRead ==
  /\ ts.pc = "login_after"
  /\ ts' = IF Val(ts.refreshed)
             THEN [ts EXCEPT !.progress = Append(@, "Token refreshed successfully"),
                             !.result = Returned(ts.credentials),
                             !.pc = AfterLogin]
             ELSE [ts EXCEPT !.progress = Append(@, "Token refresh required"),
                             !.notes = Append(@, "Token Expired"),
                             !.logs = Append(@, "Returning current token. OpenClaw will use fallback if expired."),
                             !.result = Returned(ts.credentials),
                             !.pc = AfterLogin]
  /\ UNCHANGED << now, store, doc, tmp, sh, kimi, consumer, extLogins >>

\* oauth.ts:234-269, after `await tryRefreshToken`
LoginAfter ==
  /\ ts.pc = "login_after"
  /\ \E mode \in Modes :
     LET rf == ReadFile(ts, store, now, mode)
         r == rf.outcome
         newCredentials == r.value
     IN
       ts' = Warned(IF Val(ts.refreshed) /\ r.kind = "throw"
               THEN [ts EXCEPT !.result = Thrown(r.msg), !.pc = AfterLogin]
             ELSE IF Val(ts.refreshed) /\ IsSome(newCredentials)
               THEN [ts EXCEPT !.progress = Append(@, "Token refreshed successfully"),
                               !.result = Returned(newCredentials),
                               !.pc = AfterLogin]
               ELSE [ts EXCEPT !.progress = Append(@, "Token refresh required"),
                               !.notes = Append(@, "Token Expired"),
                               !.logs = Append(@, "Returning current token. OpenClaw will use fallback if expired."),
                               !.result = Returned(ts.credentials),
                               !.pc = AfterLogin],
             IF Val(ts.refreshed) THEN rf.console ELSE << >>)
  /\ UNCHANGED << now, store, doc, tmp, sh, kimi, consumer, extLogins >>

\* the function without the comparison of line 290: after an unconfirmed
\* attempt it returns whatever record the Token Store holds
RefreshAfter_AnyRecord ==
  /\ ts.pc = "refresh_after"
  /\ \E mode \in Modes :
     LET rf == ReadFile(ts, store, now, mode)
         r == rf.outcome
     IN
       ts' = Warned([ts EXCEPT
                !.result = IF r.kind = "throw" THEN Thrown(r.msg)
                           ELSE Returned(r.value),
                !.pc = "done"],
                rf.console)
  /\ UNCHANGED << now, store, doc, tmp, sh, kimi, consumer, extLogins >>

\* oauth.ts:282-294, after `await tryRefreshToken`
RefreshAfter ==
  /\ ts.pc = "refresh_after"
  /\ \E mode \in Modes :
     LET rf == ReadFile(ts, store, now, mode)
         r == rf.outcome
         credentials == r.value
     IN
       ts' = Warned([ts EXCEPT
                !.result = IF r.kind = "throw" THEN Thrown(r.msg)
                           ELSE IF Val(ts.refreshed) THEN Returned(credentials)
                           ELSE IF IsSome(credentials) /\ Val(credentials).refresh = ts.arg
                             THEN Returned(credentials)
                           ELSE Returned(None),
                !.pc = "done"],
                rf.console)
  /\ UNCHANGED << now, store, doc, tmp, sh, kimi, consumer, extLogins >>

\* index.ts:19
PROVIDER_ID == "kimi-coding"

\* the profile built without the optional fields of the record
RunProfiles_TokensOnly(result) ==
  << [profileId |-> PROVIDER_ID \o ":default",
      credential |-> [type |-> "oauth", provider |-> PROVIDER_ID,
                      access |-> result.access, refresh |-> result.refresh,
                      expires |-> result.expires,
                      scope |-> None, tokenType |-> None]] >>

\* index.ts:61-75: the profiles of the value run returns
RunProfiles(result) ==
  << [profileId |-> PROVIDER_ID \o ":default",
      credential |-> [type |-> "oauth", provider |-> PROVIDER_ID,
                      access |-> result.access, refresh |-> result.refresh,
                      expires |-> result.expires,
                      scope |-> result.scope, tokenType |-> result.tokenType]] >>

\* index.ts:59-75 and 119-139: run stops the spinner and returns the
\* profiles; on an error it shows the 'Authentication Required' note when
\* the message says so, and rethrows
RunAfter ==
  /\ ts.pc = "run_after"
  /\ ts' = IF ts.result.kind = "throw"
             THEN [ts EXCEPT !.progress = Append(@, "Kimi Code OAuth failed"),
                             !.notes = IF Includes(ts.result.msg, "not authenticated")
                                         THEN Append(@, "Authentication Required") ELSE @,
                             !.pc = "done"]
             ELSE [ts EXCEPT !.progress = Append(@, "Kimi Code OAuth complete"),
                             !.profiles = RunProfiles(Val(ts.result.value)),
                             !.pc = "done"]
  /\ UNCHANGED << now, store, doc, tmp, sh, kimi, consumer, extLogins >>


(* ------------------------------------------------------------------ *)
(* The shared multi-profile document                                    *)
(* ------------------------------------------------------------------ *)
\* an entry as index.ts run hands it to the consumer (index.ts:61-75)
OldEntry ==
  [type |-> "oauth", provider |-> "kimi-coding", access |-> "tokOld",
   refresh |-> "refOld", expires |-> 90000,
   scope |-> Some("kimi-code"), tokenType |-> Some("Bearer")]

\* another provider's profile, owned by the consumer
OtherEntry ==
  [type |-> "api_key", provider |-> "openai", access |-> "sk-other",
   refresh |-> "", expires |-> 0, scope |-> None, tokenType |-> None]

\* the content of a complete document: the top-level key version, and
\* under profiles the entry "kimi-coding:default" (kimi) and another one
AbsentDoc == [state |-> "absent", content |-> None, fmt |-> "none"]
CompleteDoc(content, fmt) == [state |-> "complete", content |-> Some(content), fmt |-> fmt]

\* a file that holds a prefix of the document only, possibly nothing: the
\* destination of a copy under way, or the copy of an empty file
PartialDoc == [state |-> "partial", content |-> None, fmt |-> "jq"]

\* the file mv puts in place of the document: the temporary file's content
DocOf(file) ==
  IF IsSome(file.content) THEN CompleteDoc(Val(file.content), "jq") ELSE PartialDoc

InitDocs ==
  { AbsentDoc,
    [state |-> "invalid", content |-> None, fmt |-> "consumer"],
    CompleteDoc([version |-> "1", kimi |-> None, other |-> Some(OtherEntry)], "consumer"),
    CompleteDoc([version |-> "1", kimi |-> Some(OldEntry), other |-> Some(OtherEntry)],
                "consumer") }

\* the jq program building a document of the target entry alone
JqSetProfile_OnlyTarget(content, access, refresh, expires) ==
  [version |-> content.version,
   kimi |-> Some([type |-> "oauth", provider |-> "kimi-coding", access |-> access,
                  refresh |-> refresh, expires |-> expires,
                  scope |-> None, tokenType |-> None]),
   other |-> None]

\* the entry keeping, in its scope field, the access token it replaces
JqSetProfile_KeepsReplaced(content, access, refresh, expires) ==
  [content EXCEPT !.kimi =
     Some([type |-> "oauth", provider |-> "kimi-coding", access |-> access,
           refresh |-> refresh, expires |-> expires,
           scope |-> IF IsSome(content.kimi) THEN Some(Val(content.kimi).access) ELSE None,
           tokenType |-> None])]

\* the jq program merging the five fields into the entry it finds
JqSetProfile_Merges(content, access, refresh, expires) ==
  [content EXCEPT !.kimi =
     Some([type |-> "oauth", provider |-> "kimi-coding", access |-> access,
           refresh |-> refresh, expires |-> expires,
           scope |-> IF IsSome(content.kimi) THEN Val(content.kimi).scope ELSE None,
           tokenType |-> IF IsSome(content.kimi) THEN Val(content.kimi).tokenType
                         ELSE None])]

\* renew-kimi-token.sh:126-136, the jq program: the profile entry
\* "kimi-coding:default" is set to an object of five fields
JqSetProfile(content, access, refresh, expires) ==
  [content EXCEPT !.kimi =
     Some([type |-> "oauth", provider |-> "kimi-coding", access |-> access,
           refresh |-> refresh, expires |-> expires,
           scope |-> None, tokenType |-> None])]

\* the other provider's profile after its owner renewed it
UpdatedOtherEntry == [OtherEntry EXCEPT !.access = "sk-new"]

\* the consumer (openclaw models auth login for another provider) rewrites
\* the document with the other profile renewed, in one replace
OtherWriter ==
  /\ Active
  /\ doc.state = "complete"
  /\ Val(doc.content).other = Some(OtherEntry)
  /\ doc' = [doc EXCEPT !.content = Some([Val(@) EXCEPT !.other = Some(UpdatedOtherEntry)]),
                        !.fmt = "consumer"]
  /\ UNCHANGED << now, store, tmp, sh, kimi, ts, consumer, extLogins >>

\* the document is removed by hand, or by the consumer, while an operation
\* is under way (the script only tests for it at lines 61-64)
DocRemove ==
  /\ Active
  /\ doc.state # "absent"
  /\ doc' = AbsentDoc
  /\ UNCHANGED << now, store, tmp, sh, kimi, ts, consumer, extLogins >>

(* ------------------------------------------------------------------ *)
(* renew-kimi-token.sh                                                  *)
(* ------------------------------------------------------------------ *)
\* truncation toward zero, as cut -d. -f1 and awk's printf "%d" do
TruncDiv(n, d) == IF n >= 0 THEN n \div d ELSE -((-n) \div d)

\* the exit status of a pipeline without pipefail is its last command's
PipelineStatus(first, last) == last

\* $(jq -r '.expires_at // 0' "$KIMI_CREDENTIALS" | cut -d. -f1): the text,
\* None for the empty string jq's failure leaves
ShExpiresAt(file) ==
  IF file.kind # "json" THEN None
  ELSE IF ~IsSome(file.expires_at) THEN Some(0)
  ELSE Some(TruncDiv(Val(file.expires_at), 1000000))

\* $(jq -r '.expires_at // 0' "$KIMI_CREDENTIALS" | awk '{printf "%d", $1 * 1000}')
ShExpiresAtMs(file) ==
  IF file.kind # "json" THEN None
  ELSE IF ~IsSome(file.expires_at) THEN Some(0)
  ELSE Some(TruncDiv(Val(file.expires_at), 1000))

\* jq -r '.<field> // empty' "$KIMI_CREDENTIALS": jq's exit status and output
ShJqField(file, field) ==
  CASE file.kind \in {"absent", "garbage"} -> [status |-> 2, out |-> ""]
    [] file.kind = "empty" -> [status |-> 0, out |-> ""]
    [] OTHER -> [status |-> 0, out |-> IF IsSome(field) THEN Val(field) ELSE ""]

\* the comparison made on remaining_minutes (line 78) instead of the seconds
ShStillValid_Minutes(remaining_seconds) ==
  (remaining_seconds \div 60) > RENEW_THRESHOLD_S

\* renew-kimi-token.sh:83
ShStillValid(remaining_seconds) == remaining_seconds > RENEW_THRESHOLD_S

NoTmp == [state |-> "none", dir |-> "", content |-> None]

ShIdle ==
  [pc |-> "idle", expires_at |-> None, current_time |-> 0, remaining_seconds |-> 0,
   deadline |-> None, access_token |-> "", refresh_token |-> "",
   expires_at_ms |-> None, exit |-> None, log |-> << >>,
   launched |-> FALSE, wrote |-> FALSE, notified |-> FALSE, preDoc |-> None,
   restartStatus |-> None]

\* exit: the EXIT trap (line 113), once installed, removes the temporary file
ShExit(c, s, code, lines) ==
  /\ sh' = [sh EXCEPT ![c] = [s EXCEPT !.pc = "exited", !.exit = Some(code),
                                       !.log = @ \o lines]]
  /\ tmp' = [tmp EXCEPT ![c] = NoTmp]

\* renew-kimi-token.sh:19-64: the tools and the two files must be there
ShStart(c) ==
  /\ sh[c].pc = "idle" /\ ts.pc = "idle"
  /\ \E jqOk \in BOOLEAN : \E kimiOk \in BOOLEAN :
       IF ~jqOk THEN ShExit(c, sh[c], 1, << "ERROR: jq is required but not installed" >>)
       ELSE IF ~kimiOk THEN ShExit(c, sh[c], 1, << "ERROR: kimi command not found in PATH" >>)
       ELSE IF store.kind = "absent"
         THEN ShExit(c, sh[c], 1, << "ERROR: Kimi credentials file not found",
                                     "Please run 'kimi login' first to authenticate" >>)
       ELSE IF doc.state = "absent"
         THEN ShExit(c, sh[c], 1, << "ERROR: OpenClaw auth profiles not found" >>)
       ELSE /\ sh' = [sh EXCEPT ![c].pc = "check"]
            /\ UNCHANGED tmp
  /\ UNCHANGED << now, store, doc, kimi, ts, consumer, extLogins >>

\* renew-kimi-token.sh:66-86: read expires_at, compare with the clock
ShCheck(c) ==
  /\ sh[c].pc = "check"
  /\ LET expires_at == ShExpiresAt(store)
         current_time == now \div 1000
     IN IF ~IsSome(expires_at) \/ expires_at = Some(0)
          THEN ShExit(c, [sh[c] EXCEPT !.expires_at = expires_at,
                                       !.current_time = current_time],
                      1, << "ERROR: Invalid expires_at in credentials" >>)
        ELSE LET remaining_seconds == Val(expires_at) - current_time
                 s == [sh[c] EXCEPT !.expires_at = expires_at,
                                    !.current_time = current_time,
                                    !.remaining_seconds = remaining_seconds,
                                    !.log = Append(@, "Token expires in N minutes")]
             IN IF ShStillValid(remaining_seconds)
                  THEN ShExit(c, s, 0, << "Token is still valid, no action needed" >>)
                  ELSE /\ sh' = [sh EXCEPT ![c] =
                                   [s EXCEPT !.pc = "launch",
                                             !.log = @ \o << "Token expiring soon, attempting renewal..." >>]]
                       /\ UNCHANGED tmp
  /\ UNCHANGED << now, store, doc, kimi, ts, consumer, extLogins >>

\* renew-kimi-token.sh:93-96: timeout 30 kimi login 2>&1 | tee -a "$LOG_FILE".
\* When the command cannot be started the pipeline ends at once.
ShLaunch(c) ==
  /\ sh[c].pc = "launch"
  /\ \E started \in BOOLEAN :
       /\ kimi' = [kimi EXCEPT ![c] =
                     IF started THEN [NoProcess EXCEPT !.state = "running"]
                                ELSE [NoProcess EXCEPT !.state = "failed", !.code = Some(127)]]
       /\ sh' = [sh EXCEPT ![c] =
                   [@ EXCEPT !.launched = TRUE,
                             !.log = Append(@, "Running: kimi login"),
                             !.deadline = Some(now + LOGIN_TIMEOUT_S * 1000),
                             !.pc = "wait"]]
  /\ UNCHANGED << now, store, doc, tmp, ts, consumer, extLogins >>

\* timeout(1) sends SIGTERM when its 30 seconds are over, and goes on
\* waiting for the command to end
ShTimeout(c) ==
  /\ sh[c].pc = "wait"
  /\ kimi[c].state = "running" /\ ~kimi[c].termSent
  /\ now >= Val(sh[c].deadline)
  /\ \E obeys \in BOOLEAN :
       kimi' = [kimi EXCEPT ![c] =
                  IF obeys THEN [Terminated(@, TRUE) EXCEPT !.code = Some(124)]
                           ELSE Terminated(@, FALSE)]
  /\ UNCHANGED << now, store, doc, tmp, sh, ts, consumer, extLogins >>

\* renew-kimi-token.sh:96-100: the pipeline has ended; `if` sees tee's status
ShLoginDone(c) ==
  /\ sh[c].pc = "wait"
  /\ kimi[c].state \in {"exited", "failed"}
  /\ sh' = [sh EXCEPT ![c] =
              [@ EXCEPT !.deadline = None,
                        !.log = Append(@, IF PipelineStatus(Val(kimi[c].code), 0) = 0
                                            THEN "kimi login completed successfully"
                                            ELSE "WARNING: kimi login may require manual authentication or timed out"),
                        !.pc = "reread"]]
  /\ UNCHANGED << now, store, doc, tmp, kimi, ts, consumer, extLogins >>

\* renew-kimi-token.sh:102-113: expires_at is read again for the log (against
\* the current_time of line 68), then mktemp and the EXIT trap
ShReread(c) ==
  /\ sh[c].pc = "reread"
  /\ LET expires_at == ShExpiresAt(store) IN
     \E dir \in TmpDirs :
       /\ sh' = [sh EXCEPT ![c] =
                   [@ EXCEPT !.expires_at = expires_at,
                             !.remaining_seconds =
                                (IF IsSome(expires_at) THEN Val(expires_at) ELSE 0) - sh[c].current_time,
                             !.log = Append(@, "Token now expires in N minutes")
                                       \o << "Updating OpenClaw auth-profiles.json..." >>,
                             !.pc = "read_access"]]
       /\ tmp' = [tmp EXCEPT ![c] = [state |-> "empty", dir |-> dir, content |-> None]]
  /\ UNCHANGED << now, store, doc, kimi, ts, consumer, extLogins >>

\* the token that was read written to the log, as a line left in for
\* debugging would
ShReadAccess_Logged(c) ==
  /\ sh[c].pc = "read_access"
  /\ LET r == ShJqField(store, store.access_token) IN
       IF r.status # 0 THEN ShExit(c, sh[c], r.status, << >>)
       ELSE /\ sh' = [sh EXCEPT ![c] = [@ EXCEPT !.access_token = r.out,
                                                 !.log = Append(@, "Access token: " \o r.out),
                                                 !.pc = "read_refresh"]]
            /\ UNCHANGED tmp
  /\ UNCHANGED << now, store, doc, kimi, ts, consumer, extLogins >>

\* renew-kimi-token.sh:116; under set -e a failing jq ends the script
ShReadAccess(c) ==
  /\ sh[c].pc = "read_access"
  /\ LET r == ShJqField(store, store.access_token) IN
       IF r.status # 0 THEN ShExit(c, sh[c], r.status, << >>)
       ELSE /\ sh' = [sh EXCEPT ![c] = [@ EXCEPT !.access_token = r.out, !.pc = "read_refresh"]]
            /\ UNCHANGED tmp
  /\ UNCHANGED << now, store, doc, kimi, ts, consumer, extLogins >>

\* renew-kimi-token.sh:117
ShReadRefresh(c) ==
  /\ sh[c].pc = "read_refresh"
  /\ LET r == ShJqField(store, store.refresh_token) IN
       IF r.status # 0 THEN ShExit(c, sh[c], r.status, << >>)
       ELSE /\ sh' = [sh EXCEPT ![c] = [@ EXCEPT !.refresh_token = r.out, !.pc = "read_expires"]]
            /\ UNCHANGED tmp
  /\ UNCHANGED << now, store, doc, kimi, ts, consumer, extLogins >>

\* the script without the test of lines 120-123: empty tokens go on to jq
ShReadExpires_Unchecked(c) ==
  /\ sh[c].pc = "read_expires"
  /\ sh' = [sh EXCEPT ![c] = [@ EXCEPT !.expires_at_ms = ShExpiresAtMs(store),
                                       !.pc = "jq"]]
  /\ UNCHANGED << now, store, doc, tmp, kimi, ts, consumer, extLogins >>

\* renew-kimi-token.sh:118-123
ShReadExpires(c) ==
  /\ sh[c].pc = "read_expires"
  /\ LET s == [sh[c] EXCEPT !.expires_at_ms = ShExpiresAtMs(store)] IN
       IF s.access_token = "" \/ s.refresh_token = ""
         THEN ShExit(c, s, 1, << "ERROR: Could not read tokens from Kimi credentials" >>)
         ELSE /\ sh' = [sh EXCEPT ![c] = [s EXCEPT !.pc = "jq"]]
              /\ UNCHANGED tmp
  /\ UNCHANGED << now, store, doc, kimi, ts, consumer, extLogins >>

\* jq's output redirected to the shared document itself: the shell creates
\* (or truncates) the file before jq runs
ShJq_InPlace(c) ==
  /\ sh[c].pc = "jq"
  /\ IF doc.state = "complete" /\ IsSome(sh[c].expires_at_ms)
       THEN /\ doc' = CompleteDoc(JqSetProfile(Val(doc.content), sh[c].access_token,
                                   sh[c].refresh_token, Val(sh[c].expires_at_ms)), "jq")
            /\ sh' = [sh EXCEPT ![c] = [@ EXCEPT !.preDoc = Some(doc), !.wrote = TRUE,
                                                 !.pc = "restart"]]
            /\ UNCHANGED tmp
       ELSE /\ doc' = PartialDoc
            /\ ShExit(c, sh[c], 2, << >>)
  /\ UNCHANGED << now, store, kimi, ts, consumer, extLogins >>

\* renew-kimi-token.sh:125-136: jq reads the shared document and writes the
\* updated one to the temporary file; under set -e a failing jq (no valid
\* document to read, or no number for --argjson) ends the script.  A file
\* of length zero is no input to jq: it writes nothing and succeeds.
ShJq(c) ==
  /\ sh[c].pc = "jq"
  /\ \E zeroLength \in BOOLEAN :
       /\ zeroLength => doc.state = "partial"
       /\ IF doc.state = "complete" /\ IsSome(sh[c].expires_at_ms)
            THEN /\ tmp' = [tmp EXCEPT ![c] =
                              [@ EXCEPT !.state = "written",
                                        !.content = Some(JqSetProfile(Val(doc.content),
                                                      sh[c].access_token, sh[c].refresh_token,
                                                      Val(sh[c].expires_at_ms)))]]
                 /\ sh' = [sh EXCEPT ![c] = [@ EXCEPT !.preDoc = Some(doc), !.pc = "mv"]]
          ELSE IF zeroLength /\ IsSome(sh[c].expires_at_ms)
            THEN /\ tmp' = [tmp EXCEPT ![c] = [@ EXCEPT !.state = "written"]]
                 /\ sh' = [sh EXCEPT ![c] = [@ EXCEPT !.preDoc = Some(doc), !.pc = "mv"]]
          ELSE ShExit(c, sh[c], 2, << >>)
  /\ UNCHANGED << now, store, doc, kimi, ts, consumer, extLogins >>

\* mv's rename(2) works within one filesystem only
SameFilesystem(dir, crossDevice) == dir = AUTH_PROFILES_DIR \/ ~crossDevice

\* the script without set -e: a failing mv is passed over and the script
\* goes on to restart the gateway
ShMv_NoErrexit(c) ==
  /\ sh[c].pc = "mv"
  /\ \E crossDevice \in BOOLEAN : \E fails \in BOOLEAN :
       IF fails THEN /\ sh' = [sh EXCEPT ![c].pc = "restart"]
                     /\ UNCHANGED << doc, tmp >>
       ELSE IF SameFilesystem(tmp[c].dir, crossDevice)
         THEN /\ doc' = DocOf(tmp[c])
              /\ tmp' = [tmp EXCEPT ![c] = NoTmp]
              /\ sh' = [sh EXCEPT ![c] =
                          [@ EXCEPT !.wrote = TRUE, !.pc = "restart",
                                    !.log = Append(@, "Auth profiles updated successfully")]]
         ELSE /\ doc' = AbsentDoc
              /\ sh' = [sh EXCEPT ![c] = [@ EXCEPT !.wrote = TRUE, !.pc = "mv_create"]]
              /\ UNCHANGED tmp
  /\ UNCHANGED << now, store, kimi, ts, consumer, extLogins >>

\* renew-kimi-token.sh:138-140: mv "$TEMP_FILE" "$AUTH_PROFILES".  Within one
\* filesystem mv is one rename; across filesystems mv unlinks the
\* destination, creates it anew and copies into it.  A failing mv ends the
\* script under set -e.
ShMv(c) ==
  /\ sh[c].pc = "mv"
  /\ \E crossDevice \in BOOLEAN : \E fails \in BOOLEAN :
       IF fails THEN ShExit(c, sh[c], 1, << >>) /\ UNCHANGED doc
       ELSE IF SameFilesystem(tmp[c].dir, crossDevice)
         THEN /\ doc' = DocOf(tmp[c])
              /\ tmp' = [tmp EXCEPT ![c] = NoTmp]
              /\ sh' = [sh EXCEPT ![c] =
                          [@ EXCEPT !.wrote = TRUE, !.pc = "restart",
                                    !.log = Append(@, "Auth profiles updated successfully")]]
         ELSE /\ doc' = AbsentDoc
              /\ sh' = [sh EXCEPT ![c] = [@ EXCEPT !.wrote = TRUE, !.pc = "mv_create"]]
              /\ UNCHANGED tmp
  /\ UNCHANGED << now, store, kimi, ts, consumer, extLogins >>

\* mv across filesystems: the destination is created, still without content
ShMvCreate(c) ==
  /\ sh[c].pc = "mv_create"
  /\ doc' = PartialDoc
  /\ sh' = [sh EXCEPT ![c].pc = "mv_copy"]
  /\ UNCHANGED << now, store, tmp, kimi, ts, consumer, extLogins >>

\* mv across filesystems: the copy is complete and the source is removed; or
\* the copy fails on the way (no space left on the document's filesystem),
\* mv reports it and the script ends under set -e
ShMvCopy(c) ==
  /\ sh[c].pc = "mv_copy"
  /\ \E fails \in BOOLEAN :
       IF fails THEN ShExit(c, sh[c], 1, << >>) /\ UNCHANGED doc
       ELSE /\ doc' = DocOf(tmp[c])
            /\ tmp' = [tmp EXCEPT ![c] = NoTmp]
            /\ sh' = [sh EXCEPT ![c] =
                        [@ EXCEPT !.pc = "restart",
                                  !.log = Append(@, "Auth profiles updated successfully")]]
  /\ UNCHANGED << now, store, kimi, ts, consumer, extLogins >>

\* renew-kimi-token.sh:146-158: openclaw gateway restart 2>&1 | tee, then the
\* end of the script.  restartStatus is the exit status of openclaw where it
\* was run; a failing openclaw may print an error, which tee puts in the
\* log, or fail without a word.
ShRestart(c) ==
  /\ sh[c].pc = "restart"
  /\ \E found \in BOOLEAN : \E restarted \in BOOLEAN : \E says \in BOOLEAN :
       /\ restarted => found
       /\ says => (found /\ ~restarted)
       /\ consumer' = IF restarted /\ consumer < MaxRestarts THEN consumer + 1 ELSE consumer
       /\ ShExit(c, [sh[c] EXCEPT !.notified = found,
                        !.restartStatus = IF ~found THEN None
                                          ELSE IF restarted THEN Some(0) ELSE Some(1),
                        !.log = Append(@, "Restarting OpenClaw gateway...")
                                  \o (IF says THEN << "openclaw: gateway restart failed" >>
                                               ELSE << >>)],
                 0,
                 << IF ~found THEN "WARNING: openclaw command not found"
                    ELSE IF PipelineStatus(IF restarted THEN 0 ELSE 1, 0) = 0
                      THEN "Gateway restarted successfully"
                      ELSE "WARNING: Failed to restart gateway",
                    "Token renewal cycle completed" >>)
  /\ UNCHANGED << now, store, doc, kimi, ts, extLogins >>

\* the script is killed (SIGKILL, power loss) before its next step: no trap runs
ShKill(c) ==
  /\ sh[c].pc \notin {"idle", "exited", "killed"}
  /\ sh' = [sh EXCEPT ![c].pc = "killed"]
  /\ UNCHANGED << now, store, doc, tmp, kimi, ts, consumer, extLogins >>

(* ------------------------------------------------------------------ *)
(* The clock                                                            *)
(* ------------------------------------------------------------------ *)
Horizon == 100500 + MaxAdvanceS * 1000

\* Time passes while somebody waits, up to the next deadline: the callback of
\* setTimeout runs when its 5 seconds are over, timeout(1) sends its signal
\* when its 30 seconds are over, and a command that ignored the signal is
\* waited for again and again.
TsWaiting == ts.pc = "try_wait"
ShWaiting(c) == sh[c].pc = "wait" /\ kimi[c].state = "running"

Tick ==
  /\ \E d \in {REFRESH_WAIT_MS, LOGIN_TIMEOUT_S * 1000} :
       /\ \/ d = REFRESH_WAIT_MS /\ TsWaiting
          \/ d = LOGIN_TIMEOUT_S * 1000 /\ \E c \in Cycles : ShWaiting(c)
       /\ now + d <= Horizon
       /\ TsWaiting => now + d <= Val(ts.deadline)
       /\ \A c \in Cycles :
            (ShWaiting(c) /\ ~kimi[c].termSent) => now + d <= Val(sh[c].deadline)
       /\ now' = now + d
  /\ UNCHANGED << store, doc, tmp, sh, kimi, ts, consumer, extLogins >>

(* ------------------------------------------------------------------ *)
(* The specification                                                    *)
(* ------------------------------------------------------------------ *)
Init ==
  /\ now \in StartTimes
  /\ store \in InitStores(now)
  /\ doc \in InitDocs
  /\ tmp = [c \in Cycles |-> NoTmp]
  /\ sh = [c \in Cycles |-> ShIdle]
  /\ kimi = [p \in Launchers |-> NoProcess]
  /\ ts = TsIdle
  /\ consumer = 0
  /\ extLogins = 0

Next ==
  \/ Tick
  \/ ExternalLogin
  \/ \E p \in Launchers : KimiWrite(p)
  \/ \E p \in Launchers : KimiExit(p)
  \/ TsCall(FALSE)
  \/ IsAuthRead
  \/ LoginRead
  \/ GuideNote
  \/ GuidePrompt
  \/ TryStart
  \/ TimerFire
  \/ LoginAfter
  \/ RefreshAfter
  \/ RunAfter
  \/ ShStart("c1")
  \/ \E c \in Cycles : ShCheck(c)
  \/ \E c \in Cycles : ShLaunch(c)
  \/ \E c \in Cycles : ShTimeout(c)
  \/ \E c \in Cycles : ShLoginDone(c)
  \/ \E c \in Cycles : ShReread(c)
  \/ \E c \in Cycles : ShReadAccess(c)
  \/ \E c \in Cycles : ShReadRefresh(c)
  \/ \E c \in Cycles : ShReadExpires(c)
  \/ \E c \in Cycles : ShJq(c)
  \/ \E c \in Cycles : ShMv(c)
  \/ \E c \in Cycles : ShMvCreate(c)
  \/ \E c \in Cycles : ShMvCopy(c)
  \/ \E c \in Cycles : ShRestart(c)
  \/ \E c \in Cycles : ShKill(c)

Spec == Init /\ [][Next]_vars

\* the system on any runtime, in an environment that may remove the shared
\* document, rewrite its other profile, and change the HOME of the plugin's
\* process
NextEnv ==
  \/ Next
  \/ DocRemove
  \/ OtherWriter
  \/ TsCall(TRUE)
  \/ HomeChange

SpecEnv == Init /\ [][NextEnv]_vars

\* cron starts the next cycle when the cycle before it is over
ShStartNext ==
  /\ sh["c1"].pc = "exited"
  /\ ShStart("c2")

\* Token Stores on which a cycle goes on to renew, or stops at once
SeqStores(t0) ==
  { JsonStore(Some("tokA"), Some("refA"), Some((t0 + 30000) * 1000)),
    JsonStore(Some("tokA"), Some("refA"), Some(((t0 \div 1000) + RENEW_THRESHOLD_S) * 1000000)),
    JsonStore(Some("tokA"), Some("refA"), Some(((t0 \div 1000) + TOKEN_LIFETIME_S) * 1000000)),
    JsonStore(None, Some("refA"), Some((t0 + 30000) * 1000)) }

InitSeq ==
  /\ now \in StartTimes
  /\ store \in SeqStores(now)
  /\ doc \in InitDocs
  /\ tmp = [c \in Cycles |-> NoTmp]
  /\ sh = [c \in Cycles |-> ShIdle]
  /\ kimi = [p \in Launchers |-> NoProcess]
  /\ ts = TsIdle
  /\ consumer = 0
  /\ extLogins = 0

\* two cycles of the scheduler, one after the other
NextSeq ==
  \/ Tick
  \/ \E p \in Cycles : KimiWrite(p)
  \/ \E p \in Cycles : KimiExit(p)
  \/ ShStart("c1")
  \/ ShStartNext
  \/ \E c \in Cycles : ShCheck(c)
  \/ \E c \in Cycles : ShLaunch(c)
  \/ \E c \in Cycles : ShTimeout(c)
  \/ \E c \in Cycles : ShLoginDone(c)
  \/ \E c \in Cycles : ShReread(c)
  \/ \E c \in Cycles : ShReadAccess(c)
  \/ \E c \in Cycles : ShReadRefresh(c)
  \/ \E c \in Cycles : ShReadExpires(c)
  \/ \E c \in Cycles : ShJq(c)
  \/ \E c \in Cycles : ShMv(c)
  \/ \E c \in Cycles : ShMvCreate(c)
  \/ \E c \in Cycles : ShMvCopy(c)
  \/ \E c \in Cycles : ShRestart(c)

SpecSeq == InitSeq /\ [][NextSeq]_vars

\* a run of the script is started (by hand, part_002:74-75, or by cron's
\* next tick) while the run before it, its authenticator over, is on its way
\* to update the document: the script takes no lock
ShStartOverlap ==
  /\ sh["c1"].pc \in {"reread", "read_access", "read_refresh", "read_expires",
                      "jq", "mv", "mv_create", "mv_copy", "restart"}
  /\ ShStart("c2")

\* a record near expiry, and a document that holds the entry
InitOvl ==
  /\ now = 100000
  /\ store = JsonStore(Some("tokA"), Some("refA"), Some((now + 30000) * 1000))
  /\ doc = CompleteDoc([version |-> "1", kimi |-> Some(OldEntry),
                        other |-> Some(OtherEntry)], "consumer")
  /\ tmp = [c \in Cycles |-> NoTmp]
  /\ sh = [c \in Cycles |-> ShIdle]
  /\ kimi = [p \in Launchers |-> NoProcess]
  /\ ts = TsIdle
  /\ consumer = 0
  /\ extLogins = 0

\* two runs of the script that may overlap
NextOvl ==
  \/ Tick
  \/ \E p \in Cycles : KimiWrite(p)
  \/ \E p \in Cycles : KimiExit(p)
  \/ ShStart("c1")
  \/ ShStartOverlap
  \/ \E c \in Cycles : ShCheck(c)
  \/ \E c \in Cycles : ShLaunch(c)
  \/ \E c \in Cycles : ShTimeout(c)
  \/ \E c \in Cycles : ShLoginDone(c)
  \/ \E c \in Cycles : ShReread(c)
  \/ \E c \in Cycles : ShReadAccess(c)
  \/ \E c \in Cycles : ShReadRefresh(c)
  \/ \E c \in Cycles : ShReadExpires(c)
  \/ \E c \in Cycles : ShJq(c)
  \/ \E c \in Cycles : ShMv(c)
  \/ \E c \in Cycles : ShMvCreate(c)
  \/ \E c \in Cycles : ShMvCopy(c)
  \/ \E c \in Cycles : ShRestart(c)

SpecOvl == InitOvl /\ [][NextOvl]_vars

\* The schedule of setup-auto-renewal.sh: cron starts the script at every
\* fifth minute.  A token of TOKEN_LIFETIME_S was issued CronPhases before a
\* trigger; c1 is the cycle of that trigger and c2 the cycle of the next one,
\* the last trigger before the token expires.
CronPhases == {0, 500, 1000, 150000, 299000, 299999}
FirstTrigger == CRON_PERIOD_S * 1000

InitCron ==
  /\ now = FirstTrigger
  /\ \E phase \in CronPhases :
       store = JsonStore(Some("tokA"), Some("refA"),
                         Some((FirstTrigger - phase + TOKEN_LIFETIME_S * 1000) * 1000))
  /\ doc = CompleteDoc([version |-> "1", kimi |-> Some(OldEntry),
                        other |-> Some(OtherEntry)], "consumer")
  /\ tmp = [c \in Cycles |-> NoTmp]
  /\ sh = [c \in Cycles |-> ShIdle]
  /\ kimi = [p \in Launchers |-> NoProcess]
  /\ ts = TsIdle
  /\ consumer = 0
  /\ extLogins = 0

\* the time between two triggers passes once the first cycle has ended
CronNext ==
  /\ sh["c1"].pc = "exited" /\ sh["c2"].pc = "idle"
  /\ now = FirstTrigger
  /\ now' = now + CRON_PERIOD_S * 1000
  /\ UNCHANGED << store, doc, tmp, sh, kimi, ts, consumer, extLogins >>

\* cron starts the second cycle at the second trigger
ShStartCron ==
  /\ now = FirstTrigger + CRON_PERIOD_S * 1000
  /\ ShStart("c2")

NextCron ==
  \/ CronNext
  \/ \E p \in Cycles : KimiWrite(p)
  \/ \E p \in Cycles : KimiExit(p)
  \/ ShStart("c1")
  \/ ShStartCron
  \/ \E c \in Cycles : ShCheck(c)
  \/ \E c \in Cycles : ShLaunch(c)
  \/ \E c \in Cycles : ShLoginDone(c)
  \/ \E c \in Cycles : ShReread(c)
  \/ \E c \in Cycles : ShReadAccess(c)
  \/ \E c \in Cycles : ShReadRefresh(c)
  \/ \E c \in Cycles : ShReadExpires(c)
  \/ \E c \in Cycles : ShJq(c)
  \/ \E c \in Cycles : ShMv(c)
  \/ \E c \in Cycles : ShMvCreate(c)
  \/ \E c \in Cycles : ShMvCopy(c)
  \/ \E c \in Cycles : ShRestart(c)

SpecCron == InitCron /\ [][NextCron]_vars


(* ================================================================== *)
(* Claims                                                               *)
(* ================================================================== *)
\* the cycle's publish is under way or over: jq has read the document
Publishing(c) == IsSome(sh[c].preDoc)

\* the document a publish of cycle c is to leave
PostDoc(c) ==
  CompleteDoc(JqSetProfile(Val(Val(sh[c].preDoc).content), sh[c].access_token,
                           sh[c].refresh_token, Val(sh[c].expires_at_ms)), "jq")

\* C1: while a cycle publishes, and after it, also when the script is killed
\* on the way, a read of the shared document returns the complete document
\* of before the publish or the complete document of after it.
C1_PublishAtomic ==
  \A c \in Cycles :
    Publishing(c) => (doc = Val(sh[c].preDoc) \/ doc = PostDoc(c))

\* C2: the shared document changes only by one rename of a temporary file
\* that lies in the document's own directory and holds the full updated
\* document.
C2_SingleRenameFromSameDirectory ==
  [][ doc' # doc =>
        \E c \in Cycles :
          /\ sh[c].pc = "mv"
          /\ tmp[c].state = "written"
          /\ tmp[c].dir = AUTH_PROFILES_DIR
          /\ doc' = CompleteDoc(Val(tmp[c].content), "jq") ]_vars

\* the step in which cycle c makes its expiry check (lines 66-86) and finds
\* a usable expires_at
CheckStep(c) ==
  /\ sh[c].pc = "check"
  /\ sh'[c].pc \notin {"check", "killed"}
  /\ IsSome(sh'[c].expires_at) /\ sh'[c].expires_at # Some(0)

\* the step in which loginKimiCodeOAuth reads the Token Store (line 202)
LoginReadStep == ts.pc = "login_read" /\ ts'.pc # "login_read"

\* C3: a cycle whose check finds more than the threshold remaining ends at
\* once with status 0: no authenticator launched, nothing written, nobody
\* notified, Token Store, shared document and consumer as they were; and it
\* does nothing afterwards.  loginKimiCodeOAuth on a record with at least the
\* in-process threshold left returns that record, nothing spawned.
C3_FreshCycleChangesNothing ==
  [][ /\ \A c \in Cycles :
           (CheckStep(c) /\ sh'[c].remaining_seconds > RENEW_THRESHOLD_S) =>
              /\ sh'[c].pc = "exited" /\ sh'[c].exit = Some(0)
              /\ ~sh'[c].launched /\ ~sh'[c].wrote /\ ~sh'[c].notified
              /\ tmp'[c] = NoTmp
              /\ UNCHANGED << store, doc, consumer, kimi >>
      /\ \A c \in Cycles : sh[c].pc = "exited" => sh'[c] = sh[c]
      /\ (/\ LoginReadStep
          /\ IsSome(ts'.credentials)
          /\ Val(ts'.credentials).expires - now >= TOKEN_REFRESH_THRESHOLD_MS) =>
              /\ ts'.result = Returned(readKimiCliCredentials(store, now))
              /\ ts'.spawns = 0
              /\ UNCHANGED << store, doc, consumer, kimi >>
      /\ ts.pc = "done" => ts' = ts ]_vars

C3_Witness ==
  \E c \in Cycles :
    /\ sh[c].pc = "exited" /\ sh[c].exit = Some(0)
    /\ sh[c].remaining_seconds > RENEW_THRESHOLD_S
    /\ ~sh[c].launched /\ ~sh[c].wrote /\ ~sh[c].notified
    /\ doc.state = "complete" /\ consumer = 0

\* C4: renewal is triggered only when less than the threshold remains: a
\* cycle launches the authenticator only with remaining_seconds < 300, and
\* loginKimiCodeOAuth attempts a refresh only with less than 2 minutes left;
\* a record with exactly the threshold left is fresh.
C4_RenewOnlyBelowThreshold ==
  /\ \A c \in Cycles :
       sh[c].pc = "launch" => sh[c].remaining_seconds < RENEW_THRESHOLD_S
  /\ (ts.pc = "try_start" /\ ts.op # "refresh") =>
       Val(ts.credentials).expires - now < TOKEN_REFRESH_THRESHOLD_MS

\* C5: a Token Store record (both tokens present) whose expires_at lies in
\* the past is read by loginKimiCodeOAuth as a record that
\* isTokenExpiredOrNearExpiry reports as expired, so that a refresh is
\* attempted; it is never taken for fresh.
C5_PastIsExpired ==
  [][ (/\ LoginReadStep
       /\ store.kind = "json"
       /\ IsSome(store.expires_at)
       /\ Val(store.expires_at) < now * 1000
       /\ IsSome(ts'.credentials)) =>
         /\ isTokenExpiredOrNearExpiry(Val(ts'.credentials), now)
         /\ ts'.pc = "try_start" ]_vars

\* the Token Store holds, at instant t, a record with both tokens that has at
\* least the in-process threshold left
FreshOnDisk(t) ==
  /\ store.kind = "json"
  /\ IsSome(store.access_token) /\ Val(store.access_token) # ""
  /\ IsSome(store.refresh_token) /\ Val(store.refresh_token) # ""
  /\ LET expires == IF IsSome(store.expires_at) /\ Val(store.expires_at) # 0
                      THEN Val(store.expires_at) \div 1000
                      ELSE t + DEFAULT_LIFETIME_MS
     IN expires - t >= TOKEN_REFRESH_THRESHOLD_MS

\* the step in which the timer's callback resolves the promise of
\* tryRefreshToken
ResolveStep == ts.pc = "try_wait" /\ ts'.pc \in {"login_after", "refresh_after"}

\* C6: tryRefreshToken resolves with true exactly when the Token Store, read
\* when the wait is over, holds a record with both tokens and at least 2
\* minutes left; whatever the authenticator's state and exit status.
C6_RenewedIffPostCondition ==
  [][ ResolveStep =>
        /\ IsSome(ts'.refreshed)
        /\ Val(ts'.refreshed) <=> FreshOnDisk(now) ]_vars

C6_Witness ==
  /\ ts.refreshed = Some(TRUE)
  /\ kimi["ts"].state = "exited"
  /\ kimi["ts"].code = Some(1)

\* C7: when the authenticator cannot be launched, the attempt ends at once
\* with renewed = false and nothing escapes.
C7_LaunchFailureIsFalse ==
  kimi["ts"].state = "failed" =>
    /\ ts.pc # "crashed"
    /\ ts.refreshed = Some(FALSE)

\* C8: a renewal attempt is over when its bounded wait is over: the plugin's
\* attempt resolves (it does not end the process), and no cycle is still
\* waiting for the authenticator after the 30 seconds of its timeout.
C8_BoundedWait ==
  /\ ts.spawns > 0 => ts.pc # "crashed"
  /\ ts.pc = "try_wait" => now <= Val(ts.deadline)
  /\ \A c \in Cycles : sh[c].pc = "wait" => now <= Val(sh[c].deadline)

\* loginKimiCodeOAuth is in its guidance flow (lines 205-228)
InGuide == ts.pc \in {"guide_note", "guide_prompt"}

\* C9: without a Token Store file loginKimiCodeOAuth enters the guidance flow
\* and leaves it, after one note and one prompt, by throwing the 'not
\* authenticated' error, nothing spawned; index.ts run recognises the error
\* by its message, which the path-security message does not share.
C9_NoTokenThrowsNotAuthenticated ==
  [][ /\ (LoginReadStep /\ store.kind = "absent") =>
           ts'.pc = "guide_note" /\ ts'.result.kind = "none"
      /\ (InGuide /\ ts'.pc \notin {"guide_note", "guide_prompt"}) =>
           /\ ts'.result = Thrown(NotAuthenticatedMsg)
           /\ Includes(ts'.result.msg, "not authenticated")
           /\ ~Includes(PathTraversalMsg, "not authenticated")
           /\ ts'.notes = << "Kimi Code OAuth" >>
           /\ ts'.prompts = 1
           /\ ts'.spawns = 0 /\ kimi'["ts"] = NoProcess
           /\ ts'.pc = IF ts.op = "run" THEN "run_after" ELSE "done"
      /\ (/\ ts.pc = "run_after" /\ ts'.pc # "run_after"
          /\ ts.result = Thrown(NotAuthenticatedMsg)) =>
           /\ ts'.result = ts.result
           /\ ts'.notes = << "Kimi Code OAuth", "Authentication Required" >> ]_vars

C9_Witness ==
  /\ ts.op = "run" /\ ts.pc = "done"
  /\ ts.result = Thrown(NotAuthenticatedMsg)
  /\ ts.opened = 1 /\ Len(ts.logs) = 1
  /\ ts.notes = << "Kimi Code OAuth", "Authentication Required" >>

\* the renewal of cycle c is unconfirmed: the authenticator is over and the
\* re-read of the Token Store (line 103) shows no more than the threshold
ShUnconfirmed(c) ==
  /\ sh[c].launched
  /\ sh[c].pc \notin {"launch", "wait", "reread"}
  /\ IsSome(sh[c].expires_at)
  /\ sh[c].remaining_seconds <= RENEW_THRESHOLD_S

\* C10: a cycle whose renewal is unconfirmed does not publish: it writes
\* neither the temporary document nor the shared document.
C10_UnconfirmedDoesNotPublish ==
  \A c \in Cycles :
    ShUnconfirmed(c) => (~sh[c].wrote /\ tmp[c].state # "written")


\* loginKimiCodeOAuth is between its first read and its return, a renewal
\* attempt under way or just over
InAttempt(t) == t.op # "refresh" /\ t.pc \in {"try_start", "try_wait", "login_after"}

\* C11: when loginKimiCodeOAuth read a record, found it expired or near
\* expiry, and tryRefreshToken resolved with false, the function throws
\* nothing and returns the record of its first read (line 202), whatever the
\* Token Store holds by then.
C11_UnconfirmedReturnsRecordRead ==
  [][ /\ (LoginReadStep /\ ts'.pc = "try_start") =>
           /\ ts'.credentials = readKimiCliCredentials(store, now)
           /\ IsSome(ts'.credentials)
      /\ (InAttempt(ts) /\ InAttempt(ts')) => ts'.credentials = ts.credentials
      /\ (/\ ts.pc = "login_after" /\ ts'.pc # "login_after"
          /\ ts.refreshed = Some(FALSE)) =>
           /\ IsSome(ts.credentials)
           /\ ts'.result = Returned(ts.credentials)
           /\ ts'.notes = << "Token Expired" >>
           /\ ts'.pc = IF ts.op = "run" THEN "run_after" ELSE "done" ]_vars

\* the stale record is returned although the Token Store was renewed after
\* the attempt's check
C11_Witness ==
  /\ ts.op = "login" /\ ts.pc = "done"
  /\ ts.refreshed = Some(FALSE)
  /\ ts.result = Returned(ts.credentials)
  /\ IsSome(readKimiCliCredentials(store, now))
  /\ readKimiCliCredentials(store, now) # ts.credentials

\* the step in which cycle c leaves its preflight checks (lines 43-64)
StartStep(c) == sh[c].pc = "idle" /\ sh'[c].pc # "idle"

\* the step in which cycle c runs the jq of lines 126-136
JqStep(c) == sh[c].pc = "jq" /\ sh'[c].pc \notin {"jq", "killed"}

\* C12: a cycle that finds the shared document absent, at its preflight
\* check or when jq comes to read it, ends with a non-zero exit status; it
\* creates no file at the document's path, leaves no temporary file, does
\* not notify the consumer, and does nothing afterwards.
C12_AbsentDocumentIsPreconditionError ==
  [][ \A c \in Cycles :
        /\ ((StartStep(c) \/ JqStep(c)) /\ doc.state = "absent") =>
             /\ sh'[c].pc = "exited"
             /\ IsSome(sh'[c].exit) /\ Val(sh'[c].exit) # 0
             /\ doc' = AbsentDoc
             /\ tmp'[c] = NoTmp
             /\ ~sh'[c].wrote /\ ~sh'[c].notified
             /\ consumer' = consumer
        /\ sh[c].pc = "exited" => sh'[c] = sh[c] ]_vars

\* the document was there at the preflight check and is gone when jq is to
\* read it, after the authenticator ran
C12_Witness ==
  \E c \in Cycles :
    /\ sh[c].pc = "exited" /\ sh[c].exit = Some(2)
    /\ sh[c].launched /\ sh[c].access_token # ""
    /\ doc = AbsentDoc
    /\ tmp[c] = NoTmp /\ ~sh[c].notified

\* the step in which the publish of cycle c fails: jq or mv ends with an
\* error and the script with it
PublishFails(c) ==
  sh[c].pc \in {"jq", "mv", "mv_create", "mv_copy"} /\ sh'[c].pc = "exited"

\* C13: when jq or mv fails during the publish, the cycle ends with a
\* non-zero exit status, the consumer is not notified, and the shared
\* document is the one of before the publish.
C13_FailedPublishLeavesDocument ==
  [][ \A c \in Cycles :
        PublishFails(c) =>
          /\ IsSome(sh'[c].exit) /\ Val(sh'[c].exit) # 0
          /\ ~sh'[c].notified /\ consumer' = consumer
          /\ doc' = (IF sh[c].pc = "jq" THEN doc ELSE Val(sh[c].preDoc)) ]_vars

\* the Token Store is one of the cases for which the function is to return
\* null: no file, empty or blank content, content that is not JSON, a token
\* missing or empty
NullCase(file) ==
  \/ file.kind \in {"absent", "empty", "garbage"}
  \/ ~(IsSome(file.access_token) /\ Val(file.access_token) # "")
  \/ ~(IsSome(file.refresh_token) /\ Val(file.refresh_token) # "")

\* the step in which isKimiCliAuthenticated reads the Token Store
IsAuthStep == ts.pc = "isauth_read" /\ ts'.pc # "isauth_read"

\* C14: with the credential path inside the home directory,
\* readKimiCliCredentials raises nothing and returns null when the Token
\* Store is absent, empty, not JSON, or lacks a token, and otherwise a record
\* with the file's access_token and refresh_token: isKimiCliAuthenticated
\* answers accordingly and loginKimiCodeOAuth enters its guidance flow or
\* goes on with that record.
C14_ReadReturnsNullOrRecord ==
  [][ /\ (IsAuthStep /\ ts.home = HOME) =>
           /\ ts'.result.kind = "return"
           /\ ts'.answer = Some(~NullCase(store))
      /\ (LoginReadStep /\ ts.home = HOME) =>
           IF NullCase(store)
             THEN ts'.pc = "guide_note" /\ ts'.result.kind = "none"
             ELSE /\ IsSome(ts'.credentials)
                  /\ Val(ts'.credentials).access = Val(store.access_token)
                  /\ Val(ts'.credentials).refresh = Val(store.refresh_token) ]_vars

\* the step in which a public operation of oauth.ts reads the Token Store:
\* lines 191, 202, 172, 240 (after a true attempt only), 285 and 289
StoreReadStep ==
  /\ ts.pc \in {"isauth_read", "login_read", "try_wait", "login_after", "refresh_after"}
  /\ ts'.pc # ts.pc
  /\ ts.pc = "login_after" => ts.refreshed = Some(TRUE)

\* C15: a read of the Token Store that finds the credential path outside
\* the home directory ends the operation with the path-security error
\* thrown to its caller, also when the read is the one of the timer's
\* callback; index.ts run hands the error on.
C15_PathViolationReachesCaller ==
  [][ /\ (StoreReadStep /\ ~startsWith(KIMI_CREDENTIALS, ts.home)) =>
           /\ ts'.result = Thrown(PathTraversalMsg)
           /\ ts'.pc \in {"done", "run_after"}
      /\ (/\ ts.pc = "run_after" /\ ts'.pc # "run_after"
          /\ ts.result = Thrown(PathTraversalMsg)) =>
           ts'.result = ts.result /\ ts'.pc = "done" ]_vars

\* C16: a cycle that has run on a Token Store file lacking access_token or
\* refresh_token ends as a cycle without a Token Store file does (lines
\* 54-58): exit status 1, no authenticator launched, nothing written,
\* nobody notified.
C16_TokenlessFileAsMissingFile ==
  \A c \in Cycles :
    (/\ sh[c].pc = "exited"
     /\ store.kind \in {"absent", "json"} /\ NullCase(store)) =>
       /\ sh[c].exit = Some(1)
       /\ ~sh[c].launched /\ ~sh[c].wrote /\ ~sh[c].notified

\* floor(expires_at * 1000) for an expires_at held in microseconds
FloorOfMs(us) == CHOOSE m \in ((us \div 1000) - 1)..((us \div 1000) + 1) :
                   m * 1000 <= us /\ us < (m + 1) * 1000

\* the step in which cycle c converts expires_at to milliseconds (line 118)
ReadExpiresStep(c) == sh[c].pc = "read_expires" /\ sh'[c].pc = "jq"

\* the step in which the publish of cycle c puts the document in place
PublishedStep(c) == sh[c].pc \in {"mv", "mv_copy"} /\ sh'[c].pc = "restart"

\* C17: for every expires_at of the Token Store, the expires of the record
\* loginKimiCodeOAuth reads and the expires_at_ms of the script both are
\* floor(expires_at * 1000); the script writes that value to the profile
\* entry, where it can be read back.
C17_ConversionFloors ==
  [][ /\ (LoginReadStep /\ IsSome(ts'.credentials) /\ IsSome(store.expires_at)) =>
           Val(ts'.credentials).expires = FloorOfMs(Val(store.expires_at))
      /\ \A c \in Cycles :
           /\ (ReadExpiresStep(c) /\ IsSome(store.expires_at)) =>
                sh'[c].expires_at_ms = Some(FloorOfMs(Val(store.expires_at)))
           /\ PublishedStep(c) =>
                /\ doc'.state = "complete"
                /\ Val(Val(doc'.content).kimi).expires = Val(sh[c].expires_at_ms) ]_vars

\* cycle c has put its document in place and gone on to the restart
Published(c) ==
  /\ sh[c].wrote /\ IsSome(sh[c].preDoc)
  /\ sh[c].pc = "restart" \/ (sh[c].pc = "exited" /\ sh[c].exit = Some(0))

\* the two cycles publish the same Token Store record
SameRecord(c, d) ==
  /\ sh[c].access_token = sh[d].access_token
  /\ sh[c].refresh_token = sh[d].refresh_token
  /\ sh[c].expires_at_ms = sh[d].expires_at_ms

\* C18: when a cycle publishes the record the cycle before it published,
\* the shared document after the second publish is the document the first
\* publish left, format included.
C18_PublishIdempotent ==
  [][ (/\ Published("c1")
       /\ PublishedStep("c2")
       /\ SameRecord("c1", "c2")) =>
         /\ Val(sh["c2"].preDoc) = PostDoc("c1")
         /\ doc' = Val(sh["c2"].preDoc) ]_vars

\* both publishes happened, and the first one changed the document
C18_Witness ==
  /\ Published("c1") /\ Published("c2")
  /\ SameRecord("c1", "c2")
  /\ sh["c2"].pc = "exited"
  /\ doc = PostDoc("c2")
  /\ Val(sh["c1"].preDoc) # doc
  /\ Val(Val(sh["c1"].preDoc).content).kimi = Some(OldEntry)

\* C19: the document a publish puts in place differs from the document jq
\* read in the entry "kimi-coding:default" only: that entry is the object
\* of type, provider, access, refresh and expires made from the values the
\* cycle read, the other profile entry and the top-level key are the same.
C19_PublishChangesTargetOnly ==
  [][ \A c \in Cycles :
        PublishedStep(c) =>
          LET pre == Val(Val(sh[c].preDoc).content)
              post == Val(doc'.content)
          IN /\ doc'.state = "complete"
             /\ post.other = pre.other
             /\ post.version = pre.version
             /\ post.kimi = Some([type |-> "oauth", provider |-> "kimi-coding",
                                  access |-> sh[c].access_token,
                                  refresh |-> sh[c].refresh_token,
                                  expires |-> Val(sh[c].expires_at_ms),
                                  scope |-> None, tokenType |-> None]) ]_vars

\* the entry was inserted into a document that held another profile only
C19_Witness ==
  \E c \in Cycles :
    /\ Published(c)
    /\ Val(Val(sh[c].preDoc).content).kimi = None
    /\ doc.state = "complete"
    /\ IsSome(Val(doc.content).kimi)
    /\ Val(doc.content).other = Some(OtherEntry)

\* document d holds the profile entry "kimi-coding:default"
HasEntry(d) == d.state = "complete" /\ IsSome(Val(d.content).kimi)

\* C20: when the shared document held the profile entry as a cycle came to
\* update it, it holds the entry when that cycle is over, however the cycle
\* ended.
C20_EntryNeverDeleted ==
  \A c \in Cycles :
    (/\ sh[c].pc = "exited"
     /\ IsSome(sh[c].preDoc)
     /\ HasEntry(Val(sh[c].preDoc))) => HasEntry(doc)

\* cycle c is between its check step and its final step
InFlight(c) == sh[c].pc \notin {"idle", "exited", "killed"}

\* C21: at no time are two renewal cycles in flight.
C21_OneCycleInFlight ==
  ~(InFlight("c1") /\ InFlight("c2"))

\* the profile entry cycle c writes
EntryOf(c) ==
  [type |-> "oauth", provider |-> "kimi-coding", access |-> sh[c].access_token,
   refresh |-> sh[c].refresh_token, expires |-> Val(sh[c].expires_at_ms),
   scope |-> None, tokenType |-> None]

\* both cycles are over and both put their document in place
BothPublished ==
  \A c \in Cycles : sh[c].pc = "exited" /\ Published(c)

\* C22: when two overlapping cycles have both published, the shared
\* document is complete, its profile entry is the one a cycle wrote, and
\* the entry holds the tokens of the Token Store.
C22_OverlapBenign ==
  BothPublished =>
    /\ HasEntry(doc)
    /\ \E c \in Cycles : Val(Val(doc.content).kimi) = EntryOf(c)
    /\ Val(Val(doc.content).kimi).access = Val(store.access_token)
    /\ Val(Val(doc.content).kimi).refresh = Val(store.refresh_token)

\* the step in which the mv of cycle c replaces the document by one rename
RenameStep(c) == sh[c].pc = "mv" /\ sh'[c].pc = "restart"

\* C23: the rename of a cycle's publish keeps the unrelated profile as the
\* document holds it at that instant, whatever another writer did to it
\* since the cycle read the document, and puts the target entry beside it.
C23_NoLostUpdate ==
  [][ \A c \in Cycles :
        (RenameStep(c) /\ doc.state = "complete" /\ doc'.state = "complete") =>
          /\ Val(doc'.content).other = Val(doc.content).other
          /\ Val(doc'.content).kimi = Some(EntryOf(c)) ]_vars

\* line l is in the log
Logged(log, l) == \E i \in DOMAIN log : log[i] = l

\* the step in which cycle c, its document published, notifies the consumer
\* and ends
RestartStep(c) == sh[c].pc = "restart" /\ sh'[c].pc = "exited"

\* the notification of cycle c failed: openclaw was not found, or it ended
\* with an error
NotifyFailed(s) == ~s.notified \/ s.restartStatus # Some(0)

\* C24: when the notification fails after a publish, the shared document
\* stays as published, the cycle ends with status 0, and its log says that
\* the notification failed and does not say that it succeeded.
C24_NotifyFailureKeepsPublish ==
  [][ \A c \in Cycles :
        (RestartStep(c) /\ NotifyFailed(sh'[c])) =>
          /\ doc' = doc
          /\ sh'[c].exit = Some(0)
          /\ \/ Logged(sh'[c].log, "WARNING: openclaw command not found")
             \/ Logged(sh'[c].log, "WARNING: Failed to restart gateway")
             \/ Logged(sh'[c].log, "openclaw: gateway restart failed")
          /\ ~Logged(sh'[c].log, "Gateway restarted successfully") ]_vars

\* cycle c came to its expiry check and has ended
Checked(c) == sh[c].pc = "exited" /\ Logged(sh[c].log, "Token expires in N minutes")

\* the store still holds the token that was issued before the first trigger
IssuedTokenKept == store.kind = "json" /\ store.access_token = Some("tokA")

\* C25: with a trigger every 5 minutes, the threshold of 300 seconds and a
\* lifetime of 600 seconds, a token that has not been renewed when the
\* cycles of both triggers before its expiry have ended was given a renewal
\* attempt by each of them, whatever the phase of its issue.
C25_TwoAttemptsBeforeExpiry ==
  (Checked("c1") /\ Checked("c2") /\ IssuedTokenKept) =>
    (sh["c1"].launched /\ sh["c2"].launched)

\* cycle c has ended having found the token fresh, or having renewed it and
\* published the renewed record
ShSucceeded(c) ==
  /\ sh[c].pc = "exited"
  /\ \/ ~sh[c].launched /\ Logged(sh[c].log, "Token is still valid, no action needed")
     \/ /\ sh[c].launched /\ sh[c].remaining_seconds > RENEW_THRESHOLD_S
        /\ Logged(sh[c].log, "Auth profiles updated successfully")

\* cycle c has ended after an attempt that left the token unrenewed
ShSoftFailed(c) == sh[c].pc = "exited" /\ ShUnconfirmed(c)

\* C26: the exit status tells the outcomes of a cycle apart: a cycle whose
\* renewal was unconfirmed ends with a status other than that of a cycle
\* that renewed the token or found it fresh.
C26_ExitStatusTellsOutcome ==
  \A c \in Cycles : \A d \in Cycles :
    (ShSoftFailed(c) /\ ShSucceeded(d)) => sh[c].exit # sh[d].exit

\* the token values of the stores and of the logins
AllTokens ==
  {"tokA", "refA"} \cup { NewAccess(p) : p \in Launchers \cup {"ext"} }
                   \cup { NewRefresh(p) : p \in Launchers \cup {"ext"} }

TokenLengths == { Len(v) : v \in AllTokens }

\* message m holds a token value
HoldsToken(m) ==
  \E n \in TokenLengths : \E i \in 1..(Len(m) - n + 1) :
    SubSeq(m, i, i + n - 1) \in AllTokens

SeqSet(q) == { q[i] : i \in DOMAIN q }

\* every message given to log, note, progress and the console by oauth.ts,
\* the message of the error it throws, and every line of the script's log
Outputs ==
  SeqSet(ts.notes) \cup SeqSet(ts.logs) \cup SeqSet(ts.progress)
    \cup SeqSet(ts.console) \cup {ts.result.msg}
    \cup UNION { SeqSet(sh[c].log) : c \in Cycles }

\* the file with other token values of the same format: present where they
\* were present, empty where they were empty, as little a JWT as before
OtherTokens(file) ==
  [file EXCEPT !.access_token = IF TruthyStr(@) THEN Some("tokZ") ELSE @,
               !.refresh_token = IF TruthyStr(@) THEN Some("refZ") ELSE @]

\* what decides the messages of a read by oauth.ts and of the script's
\* reads: the outcome's kind, error message, presence and expiry, the
\* console lines, and the script's expiry, status and emptiness tests
ReadView(file, mode) ==
  LET rf == ReadFile(ts, file, now, mode) IN
  [kind |-> rf.outcome.kind, msg |-> rf.outcome.msg,
   present |-> IsSome(rf.outcome.value),
   expires |-> IF IsSome(rf.outcome.value) THEN Val(rf.outcome.value).expires ELSE 0,
   console |-> rf.console,
   sh_expires |-> ShExpiresAt(file), sh_expires_ms |-> ShExpiresAtMs(file),
   sh_access |-> [status |-> ShJqField(file, file.access_token).status,
                  empty |-> ShJqField(file, file.access_token).out = ""],
   sh_refresh |-> [status |-> ShJqField(file, file.refresh_token).status,
                   empty |-> ShJqField(file, file.refresh_token).out = ""]]

\* C27: no human-facing output depends on the token values: no message of
\* oauth.ts and no line of the script's log holds a token value, and what
\* the messages are decided by is the same for a Token Store that differs
\* in its token values only.
C27_OutputIndependentOfTokens ==
  /\ \A m \in Outputs : ~HoldsToken(m)
  /\ \A mode \in Modes : ReadView(OtherTokens(store), mode) = ReadView(store, mode)

\* a renewing cycle has published the tokens of its login and written its
\* log to the end
C27_Witness ==
  /\ sh["c1"].pc = "exited" /\ sh["c1"].access_token = NewAccess("c1")
  /\ Logged(sh["c1"].log, "Token renewal cycle completed")

\* C30: the permissions of the Token Store file never change what a read
\* returns or throws: for every mode, and where the mode cannot be found,
\* the outcome is that for mode 600 and the console gets at most the
\* advisory in addition; so the answer of isKimiCliAuthenticated is the one
\* a file of mode 600 gives.
C30_PermissionAdvisoryOnly ==
  [][ LET base == ReadFile(ts, store, now, "600") IN
      /\ \A mode \in Modes :
           LET rf == ReadFile(ts, store, now, mode) IN
           /\ rf.outcome = base.outcome
           /\ \/ rf.console = base.console
              \/ rf.console = << PermissionWarning(mode) >> \o base.console
      /\ IsAuthStep =>
           /\ IF base.outcome.kind = "throw"
                THEN ts'.result = Thrown(base.outcome.msg)
                ELSE ts'.answer = Some(IsSome(base.outcome.value))
           /\ \E mode \in Modes :
                ts'.console \in { ts.console \o base.console,
                                  ts.console \o << PermissionWarning(mode) >>
                                             \o base.console } ]_vars

\* isKimiCliAuthenticated read a file of mode 666: the console got the
\* advisory and the answer is true
C30_Witness ==
  /\ ts.op = "isauth" /\ ts.pc = "done"
  /\ Logged(ts.console, PermissionWarning("666"))
  /\ ts.answer = Some(TRUE)

\* the place of a step of the script in its text
Rank(pc) ==
  CASE pc = "idle" -> 0
    [] pc = "check" -> 1
    [] pc = "launch" -> 2
    [] pc = "wait" -> 3
    [] pc = "reread" -> 4
    [] pc = "read_access" -> 5
    [] pc = "read_refresh" -> 6
    [] pc = "read_expires" -> 7
    [] pc = "jq" -> 8
    [] pc = "mv" -> 9
    [] pc = "mv_create" -> 10
    [] pc = "mv_copy" -> 11
    [] pc = "restart" -> 12
    [] OTHER -> 13

\* the step in which cycle c starts the external authenticator
LaunchStep(c) == kimi[c].state = "none" /\ kimi'[c].state # "none"

\* the step in which cycle c reads the Token Store again (lines 103-106)
RereadStep(c) == sh[c].pc = "reread" /\ sh'[c].pc = "read_access"

\* a step in which cycle c writes at the path of the shared document
DocWriteStep(c) == doc' # doc /\ sh'[c] # sh[c]

\* C28: a cycle goes through its steps in the order of the script and never
\* back: it starts the authenticator only after an expiry check that found
\* the token near expiry, reads the Token Store again only when the
\* authenticator has ended, writes the shared document only after that
\* read, and notifies the consumer only after the document was replaced.
C28_StepsInOrder ==
  [][ /\ \A c \in Cycles :
           /\ Rank(sh'[c].pc) >= Rank(sh[c].pc)
           /\ LaunchStep(c) =>
                /\ Logged(sh[c].log, "Token expires in N minutes")
                /\ ~ShStillValid(sh[c].remaining_seconds)
           /\ RereadStep(c) => kimi[c].state \in {"exited", "failed"}
           /\ DocWriteStep(c) => Logged(sh[c].log, "Token now expires in N minutes")
           /\ (RestartStep(c) \/ sh'[c].notified) =>
                /\ sh'[c].wrote
                /\ Logged(sh'[c].log, "Auth profiles updated successfully")
      /\ doc' # doc => \E c \in Cycles : DocWriteStep(c)
      /\ consumer' # consumer => \E c \in Cycles : RestartStep(c) ]_vars

\* a cycle went through all its steps: it renewed, published and notified
C28_Witness ==
  /\ sh["c1"].pc = "exited" /\ sh["c1"].launched /\ kimi["c1"].state = "exited"
  /\ sh["c1"].wrote /\ sh["c1"].notified /\ consumer = 1

\* the in-process check of oauth.ts says that the record of the Token Store
\* needs a refresh now
InProcessSaysRefresh ==
  LET r == ReadOutcome(ts, store, now) IN
  /\ r.kind = "return" /\ IsSome(r.value)
  /\ isTokenExpiredOrNearExpiry(Val(r.value), now)

\* the step in which cycle c makes its expiry check (lines 66-86)
ExpiryCheckStep(c) == sh[c].pc = "check" /\ sh'[c].pc \notin {"check", "killed"}

\* C29: whenever the in-process check says that the record needs a refresh,
\* the expiry check of a cycle made at the same instant goes on to the
\* renewal.
C29_SchedulerThresholdDominates ==
  [][ \A c \in Cycles :
        (ExpiryCheckStep(c) /\ InProcessSaysRefresh) => sh'[c].pc = "launch" ]_vars

\* the step in which run of index.ts gets the outcome of loginKimiCodeOAuth
\* and ends
RunStep == ts.pc = "run_after" /\ ts'.pc = "done"

\* C31: when loginKimiCodeOAuth returns a record, run returns one profile
\* 'kimi-coding:default' whose access, refresh, expires, scope and tokenType
\* are the record's; when it throws, run stops the progress indicator,
\* rethrows the same error, and shows the 'Authentication Required' note if
\* and only if the message contains 'not authenticated'.
C31_RunPassesCredentialThrough ==
  [][ RunStep =>
        IF ts.result.kind = "return"
          THEN /\ IsSome(ts.result.value)
               /\ Len(ts'.profiles) = 1
               /\ ts'.profiles[1].profileId = "kimi-coding:default"
               /\ LET cred == ts'.profiles[1].credential
                      rec == Val(ts.result.value)
                  IN /\ cred.access = rec.access /\ cred.refresh = rec.refresh
                     /\ cred.expires = rec.expires
                     /\ cred.scope = rec.scope /\ cred.tokenType = rec.tokenType
               /\ ts'.notes = ts.notes
          ELSE /\ ts'.result = ts.result
               /\ ts'.profiles = << >>
               /\ ts'.progress = Append(ts.progress, "Kimi Code OAuth failed")
               /\ IF Includes(ts.result.msg, "not authenticated")
                    THEN ts'.notes = Append(ts.notes, "Authentication Required")
                    ELSE ts'.notes = ts.notes ]_vars

\* run returned the profile of a record that has a scope and a token type
C31_Witness ==
  /\ ts.op = "run" /\ ts.pc = "done" /\ ts.result.kind = "return"
  /\ Len(ts.profiles) = 1
  /\ ts.profiles[1].credential.scope = Some("kimi-code")
  /\ ts.profiles[1].credential.access = "tokA"

\* the step in which loginKimiCodeOAuth, the attempt over, reports a
\* successful refresh (oauth.ts:240)
SuccessStep ==
  /\ ts.pc = "login_after"
  /\ ts'.progress = Append(ts.progress, "Token refreshed successfully")

FromOneState(a, r, e) ==
  \/ \E t0 \in StartTimes : \E file \in InitStores(t0) :
       /\ file.kind = "json"
       /\ file.access_token = Some(a) /\ file.refresh_token = Some(r)
       /\ ShExpiresAtMs(file) = e
  \/ \E p \in Launchers \cup {"ext"} : \E t0 \in StartTimes :
       /\ a = NewAccess(p) /\ r = NewRefresh(p)
       /\ IsSome(e)
       /\ t0 <= Val(e) - TOKEN_LIFETIME_S * 1000
       /\ Val(e) - TOKEN_LIFETIME_S * 1000 <= now

\* C33: the access, refresh and expires a cycle goes on to publish all come
\* from one state of the Token Store, whatever is written to the store
\* between the three reads of lines 116-118.
C33_PublishedEntryIsSnapshot ==
  [][ \A c \in Cycles :
        ReadExpiresStep(c) =>
          FromOneState(sh'[c].access_token, sh'[c].refresh_token,
                       sh'[c].expires_at_ms) ]_vars

\* a profile entry as the claim wants it
WellFormedEntry(entry) ==
  /\ entry.type = "oauth" /\ entry.provider = "kimi-coding"
  /\ entry.access # "" /\ entry.refresh # ""
  /\ entry.expires > 0

\* the step in which cycle c, the attempt over, finds a token missing and
\* ends (lines 120-123)
TokensUnreadableStep(c) ==
  /\ sh[c].pc = "read_expires" /\ sh'[c].pc = "exited"
  /\ sh[c].access_token = "" \/ sh[c].refresh_token = ""

RefreshReturnStep ==
  ts.pc = "refresh_after" /\ ts'.pc = "done" /\ ts'.result.kind = "return"

\* C35: refreshKimiCodeTokens(refreshToken) has started the external
\* authenticator when it returns; after a confirmed renewal it returns what
\* the Token Store holds then; after an unconfirmed one it returns the
\* record of the Token Store if that record's refresh is the argument, and
\* null if there is no record or its refresh differs.
C35_RefreshReturnsConfirmedOrMatching ==
  [][ RefreshReturnStep =>
        LET current == readKimiCliCredentials(store, now) IN
        /\ ts.spawns = 1
        /\ IF Val(ts.refreshed) THEN ts'.result.value = current
           ELSE IF IsSome(current) /\ Val(current).refresh = ts.arg
             THEN ts'.result.value = current
             ELSE ts'.result.value = None ]_vars

\* an unconfirmed attempt, a stored record with another refresh token: null
C35_Witness ==
  /\ ts.op = "refresh" /\ ts.pc = "done" /\ ts.arg = "refOther"
  /\ ts.refreshed = Some(FALSE) /\ ts.spawns = 1
  /\ IsSome(readKimiCliCredentials(store, now))
  /\ ts.result = Returned(None)

\* a Token Store record with both tokens and no expires_at
NoExpiry(file) ==
  /\ file.kind = "json" /\ ~IsSome(file.expires_at)
  /\ TruthyStr(file.access_token) /\ TruthyStr(file.refresh_token)

\* C36: of a Token Store record with both tokens and no expires_at,
\* loginKimiCodeOAuth returns the tokens with expires one hour after the
\* instant of the read, as a valid authentication and without starting the
\* external authenticator; the scheduler cycle that checks the same file
\* ends with status 1 and 'Invalid expires_at', having started nothing and
\* written nothing.
C36_MissingExpiryFreshHereInvalidThere ==
  [][ NoExpiry(store) =>
        /\ LoginReadStep =>
              /\ ts'.result =
                   Returned(Some([access |-> Val(store.access_token),
                                  refresh |-> Val(store.refresh_token),
                                  expires |-> now + DEFAULT_LIFETIME_MS,
                                  scope |-> store.scope,
                                  tokenType |-> store.token_type]))
              /\ ts'.pc = AfterLogin /\ ts'.spawns = 0
              /\ Logged(ts'.progress, "Found valid Kimi CLI authentication")
        /\ \A c \in Cycles :
              ExpiryCheckStep(c) =>
                /\ sh'[c].pc = "exited" /\ sh'[c].exit = Some(1)
                /\ Logged(sh'[c].log, "ERROR: Invalid expires_at in credentials")
                /\ ~sh'[c].launched /\ ~sh'[c].wrote
                /\ kimi' = kimi /\ doc' = doc /\ store' = store ]_vars

\* a cycle ended on such a file with the error, nothing started or written
C36_Witness ==
  /\ NoExpiry(store)
  /\ sh["c1"].pc = "exited" /\ sh["c1"].exit = Some(1)
  /\ Logged(sh["c1"].log, "ERROR: Invalid expires_at in credentials")
  /\ ~sh["c1"].launched /\ ~sh["c1"].wrote /\ kimi["c1"].state = "none"

\* document d holds a profile entry with a scope or a tokenType, as the
\* interactive login builds it
HasLoginFields(d) ==
  /\ HasEntry(d)
  /\ \/ IsSome(Val(Val(d.content).kimi).scope)
     \/ IsSome(Val(Val(d.content).kimi).tokenType)

\* C37: when a scheduler cycle puts its document in place of one whose
\* entry "kimi-coding:default" has a scope or a tokenType, the entry of
\* the new document has type, provider, access, refresh and expires and
\* nothing else: scope and tokenType are gone.
C37_PublishDropsScopeAndTokenType ==
  [][ \A c \in Cycles :
        (PublishedStep(c) /\ HasLoginFields(doc)) =>
          /\ HasEntry(doc')
          /\ LET entry == Val(Val(doc'.content).kimi) IN
               /\ entry.scope = None /\ entry.tokenType = None
               /\ entry.type = "oauth" /\ entry.provider = PROVIDER_ID
               /\ entry.access = sh[c].access_token
               /\ entry.refresh = sh[c].refresh_token
               /\ entry.expires = Val(sh[c].expires_at_ms) ]_vars

\* the cycle is over, the entry of the interactive login was in the
\* document it read, and the document holds neither field now
C37_Witness ==
  /\ sh["c1"].pc = "exited" /\ Published("c1")
  /\ Val(Val(sh["c1"].preDoc).content).kimi = Some(OldEntry)
  /\ OldEntry.scope = Some("kimi-code") /\ OldEntry.tokenType = Some("Bearer")
  /\ HasEntry(doc) /\ ~HasLoginFields(doc)

====
